---- MODULE Spec2Model ----
(***************************************************************************)
(* Content-acquisition pipeline of the public-sector scraper: the crawl    *)
(* scheduler (crawl, normalizeUrl, isSameDomain), the page extractor's     *)
(* browser session and link pre-filter, and the link ranker (rankLinks,    *)
(* rankBatch, heuristicRank, filterByScore).                               *)
(*                                                                         *)
(* Strings are sequences of tokens.  A URL is <<origin, t2, t3, ...>>      *)
(* where the origin token stands for "scheme://host" and the remaining     *)
(* tokens are "/", path segments, "?", "&", "name=value" parameters, "#"   *)
(* and fragment text.  Anchor texts and contexts are sequences of words.   *)
(* Scores are hundredths: 95 stands for 0.95.                              *)
(***************************************************************************)
EXTENDS Integers, Sequences, FiniteSets, TLC

VARIABLES
    pc,              \* position of the run: see the actions
    seedUrl,         \* crawl(seedUrl, config): the seed as given by the caller
    cfg,             \* crawl's merged configuration
    seedDomain,      \* hostname of the normalized seed
    visited,         \* Set<string> of normalized URLs
    queue,           \* QueueItem[]: the frontier
    pages,           \* PageContent[]
    allRankedLinks,  \* RankedLink[]
    errors,          \* Array<{url, error}>
    fetched,         \* every extractLinksFromUrl invocation of the run, in order
    llmCalls,        \* chatCompletion calls issued so far
    browserInstance, \* module-level: the launched browser, FALSE for null
    browserContext,  \* module-level: its context, FALSE for null
    launches,        \* chromium.launch calls
    closes,          \* closeBrowser calls
    sleeps,          \* the sleep(ms) calls of the run, in order
    progress,        \* the CrawlProgress reports handed to onProgress, in order
    insertion,       \* history: at[i] is the rank of queue[i] among all pushes of
                     \* the run, count the number of pushes so far
    arg,             \* input of the pure function under check
    res              \* its result(s)

vars == <<pc, seedUrl, cfg, seedDomain, visited, queue, pages, allRankedLinks,
          errors, fetched, llmCalls, browserInstance, browserContext, launches,
          closes, sleeps, progress, insertion, arg, res>>

crawlVars == <<seedUrl, cfg, seedDomain, visited, queue, pages, allRankedLinks,
               errors, fetched, llmCalls, browserInstance, browserContext,
               launches, closes, sleeps, progress, insertion>>

(***************************************************************************)
(* Bounds of the model.                                                    *)
(***************************************************************************)
MaxPathLen == 4
MaxParams == 2
MaxHeurLinks == 3
MaxRankLinks == 2
MaxDepthBound == 2
MaxPagesBound == 2

(***************************************************************************)
(* Sequence helpers.                                                       *)
(***************************************************************************)
Range(s) == {s[i] : i \in 1..Len(s)}

Last(s) == s[Len(s)]

IndexOf(s, t) ==
    IF \E i \in 1..Len(s) : s[i] = t
    THEN CHOOSE i \in 1..Len(s) : s[i] = t /\ \A j \in 1..(i - 1) : s[j] # t
    ELSE 0

RECURSIVE Join(_, _)
Join(list, sep) ==
    IF list = <<>> THEN <<>>
    ELSE IF Len(list) = 1 THEN <<list[1]>>
    ELSE <<list[1], sep>> \o Join(Tail(list), sep)

SeqsUpTo(S, n) == UNION {[1..k -> S] : k \in 0..n}

(***************************************************************************)
(* URL strings and the WHATWG URL object (new URL, hash, searchParams,     *)
(* pathname, hostname, toString).                                          *)
(***************************************************************************)
OriginTokens == {"https://a.gov", "https://www.a.gov", "https://sub.a.gov",
                 "https://b.com", "https://www.b.com", "https://sub.b.com",
                 "https://www.facebook.com"}

\* new URL(u).hostname, as its dot-separated labels
hostnameOf(origin) ==
    CASE origin = "https://a.gov" -> <<"a", "gov">>
      [] origin = "https://www.a.gov" -> <<"www", "a", "gov">>
      [] origin = "https://sub.a.gov" -> <<"sub", "a", "gov">>
      [] origin = "https://b.com" -> <<"b", "com">>
      [] origin = "https://www.b.com" -> <<"www", "b", "com">>
      [] origin = "https://sub.b.com" -> <<"sub", "b", "com">>
      [] origin = "https://www.facebook.com" -> <<"www", "facebook", "com">>
      [] OTHER -> <<>>

ParamTokens == {"utm_source=x", "utm_medium=x", "utm_campaign=x", "fbclid=x",
                "gclid=x", "utm_content=x", "id=1"}

\* the name of a "name=value" pair
ParamName(p) ==
    CASE p = "utm_source=x" -> "utm_source"
      [] p = "utm_medium=x" -> "utm_medium"
      [] p = "utm_campaign=x" -> "utm_campaign"
      [] p = "fbclid=x" -> "fbclid"
      [] p = "gclid=x" -> "gclid"
      [] p = "utm_content=x" -> "utm_content"
      [] p = "id=1" -> "id"
      [] OTHER -> p

\* new URL(url) throws unless the string starts with an origin followed by
\* nothing, a path, a query or a fragment
CanParse(url) ==
    /\ Len(url) >= 1
    /\ url[1] \in OriginTokens
    /\ Len(url) = 1 \/ url[2] \in {"/", "?", "#"}

\* new URL(url): the parsed record.  An empty path is "/"; the query is the
\* list of its name=value pairs (empty pieces between "&" are skipped).
ParseURL(url) ==
    LET h == IndexOf(url, "#")
        noHash == IF h = 0 THEN url ELSE SubSeq(url, 1, h - 1)
        q == IndexOf(noHash, "?")
        noQuery == IF q = 0 THEN noHash ELSE SubSeq(noHash, 1, q - 1)
        rawPath == Tail(noQuery)
        rawQuery == IF q = 0 THEN <<>> ELSE SubSeq(noHash, q + 1, Len(noHash))
    IN  [origin |-> url[1],
         pathname |-> IF rawPath = <<>> THEN <<"/">> ELSE rawPath,
         query |-> [present |-> q # 0,
                    searchParams |-> SelectSeq(rawQuery, LAMBDA t : t # "&")],
         hasHash |-> h # 0,
         hash |-> IF h = 0 THEN <<>> ELSE SubSeq(url, h + 1, Len(url))]

\* parsed.hash = "": the fragment becomes null
clearHash(u) == [u EXCEPT !.hasHash = FALSE, !.hash = <<>>]

\* parsed.searchParams.delete(name): drops every pair of that name and
\* rewrites the query from the list (a list left empty makes the query null)
searchParamsDelete(u, name) ==
    [u EXCEPT !.query =
        LET kept == SelectSeq(@.searchParams, LAMBDA p : ParamName(p) # name)
        IN  [present |-> kept # <<>>, searchParams |-> kept]]

\* parsed.toString()
toString(u) ==
    <<u.origin>> \o u.pathname
        \o (IF u.query.present THEN <<"?">> \o Join(u.query.searchParams, "&") ELSE <<>>)
        \o (IF u.hasHash THEN <<"#">> \o u.hash ELSE <<>>)

TrackingParams == <<"utm_source", "utm_medium", "utm_campaign", "fbclid", "gclid">>

RECURSIVE deleteAll(_, _)
deleteAll(u, names) ==
    IF names = <<>> THEN u
    ELSE deleteAll(searchParamsDelete(u, Head(names)), Tail(names))

\* normalizeUrl(url)
normalizeUrl(url) ==
    IF ~CanParse(url) THEN url
    ELSE LET parsed == deleteAll(clearHash(ParseURL(url)), TrackingParams)
             normalized == toString(parsed)
         IN  IF Last(normalized) = "/" /\ parsed.pathname # <<"/">>
             THEN SubSeq(normalized, 1, Len(normalized) - 1)
             ELSE normalized

(***************************************************************************)
(* Text matching.  toLowerCase maps a word to its lower-case form; Sub(w)  *)
(* is the set of pattern keywords that occur inside the lower-case word w  *)
(* (a regular expression without anchors matches anywhere in the text).    *)
(***************************************************************************)
toLowerCase(w) ==
    CASE w = "FY2025" -> "fy2025"
      [] w = "RFP" -> "rfp"
      [] w = "IT" -> "it"
      [] w = "Services" -> "services"
      [] w = "Budget" -> "budget"
      [] w = "About" -> "about"
      [] w = "Contact" -> "contact"
      [] w = "Forbidden" -> "forbidden"
      [] w = "Solicitation" -> "solicitation"
      [] w = "Annual" -> "annual"
      [] w = "Financial" -> "financial"
      [] w = "Report" -> "report"
      [] w = "Staff" -> "staff"
      [] w = "Login" -> "login"
      [] OTHER -> w

Sub(w) ==
    CASE w = "budget" -> {"budget"}
      [] w = "rfp" -> {"rfp"}
      [] w = "bid" -> {"bid"}
      [] w = "forbidden" -> {"bid"}
      [] w = "contact" -> {"contact"}
      [] w = "solicitation" -> {"solicitation"}
      [] w = "annual" -> {"annual"}
      [] w = "financial" -> {"financial"}
      [] w = "report" -> {"report"}
      [] w = "staff" -> {"staff"}
      [] w = "report.pdf" -> {"report", ".pdf"}
      [] OTHER -> {}

\* words whose last characters are ".pdf"
EndsInPdf(w) == w \in {"report.pdf"}

ExtractedLink(url, anchorText, context) ==
    [url |-> url, anchorText |-> anchorText, context |-> context]

\* `${link.url} ${link.anchorText} ${link.context}`.toLowerCase()
textToCheck(link) ==
    LET t == link.url \o link.anchorText \o link.context
    IN  [i \in 1..Len(t) |-> toLowerCase(t[i])]

\* one alternative k1.*k2.*...kn of a pattern matches text from position from
RECURSIVE altMatches(_, _, _)
altMatches(alt, text, from) ==
    IF alt = <<>> THEN TRUE
    ELSE \E i \in from..Len(text) :
            /\ Head(alt) \in Sub(text[i])
            /\ altMatches(Tail(alt), text, i + 1)

\* pattern.test(text): some alternative matches; an atEnd pattern (\.pdf$)
\* needs the text to end in it
patternTest(pattern, text) ==
    IF pattern.atEnd
    THEN text # <<>> /\ EndsInPdf(Last(text))
    ELSE \E alt \in pattern.alts : altMatches(alt, text, 1)

Pat(alts, weight) == [alts |-> alts, weight |-> weight, atEnd |-> FALSE]

\* the table of heuristicRank, in its order; weights in hundredths
highValuePatterns ==
    << Pat({<<"budget">>}, 90),
       Pat({<<"acfr">>}, 95),
       Pat({<<"annual", "financial", "report">>}, 95),
       Pat({<<"financial", "report">>}, 85),
       Pat({<<"finance">>}, 80),
       Pat({<<"treasurer">>}, 80),
       Pat({<<"cfo">>, <<"chief", "financial">>}, 85),
       Pat({<<"procurement">>}, 90),
       Pat({<<"rfp">>, <<"rfq">>, <<"rfi">>}, 95),
       Pat({<<"bid">>, <<"bidding">>}, 85),
       Pat({<<"solicitation">>}, 90),
       Pat({<<"vendor">>}, 70),
       Pat({<<"contract">>}, 75),
       Pat({<<"contact">>}, 60),
       Pat({<<"directory">>}, 65),
       Pat({<<"staff">>}, 55),
       Pat({<<"agenda">>}, 70),
       Pat({<<"minutes">>}, 70),
       Pat({<<"board", "meeting">>}, 75),
       Pat({<<"council", "meeting">>}, 75),
       [alts |-> {<<".pdf">>}, weight |-> 50, atEnd |-> TRUE],
       Pat({<<"document">>}, 50),
       Pat({<<"capital", "project">>}, 85),
       Pat({<<"capital", "improvement">>}, 85) >>

\* faulty variant: the last matched weight instead of the greatest
mathMaxLast(a, b) == b

mathMax(a, b) == IF a >= b THEN a ELSE b

\* the loop over the table: maxScore = Math.max(maxScore, weight) on a match
RECURSIVE scoreLoop(_, _, _)
scoreLoop(text, k, maxScore) ==
    IF k > Len(highValuePatterns) THEN maxScore
    ELSE scoreLoop(text, k + 1,
                   IF patternTest(highValuePatterns[k], text)
                   THEN mathMax(maxScore, highValuePatterns[k].weight)
                   ELSE maxScore)

\* const scored = links.map(...)
heuristicScored(links) ==
    [i \in 1..Len(links) |->
        [link |-> links[i], score |-> scoreLoop(textToCheck(links[i]), 1, 0)]]

\* Array.prototype.sort with the comparator (a, b) => key(b) - key(a): a
\* stable sort by descending key.  keys[i] is the key of the i-th element;
\* sortedPosition is the place the i-th element takes: behind every element
\* of greater key and every earlier element of equal key.
sortedPosition(keys, i) ==
    Cardinality({j \in 1..Len(keys) :
                    keys[j] > keys[i] \/ (keys[j] = keys[i] /\ j <= i)})

sortDescBy(s, keys) ==
    [p \in 1..Len(s) |-> s[CHOOSE i \in 1..Len(s) : sortedPosition(keys, i) = p]]

\* heuristicRank(links)
heuristicRank(links) ==
    LET kept == SelectSeq(heuristicScored(links), LAMBDA s : s.score > 0)
        sorted == sortDescBy(kept, [i \in 1..Len(kept) |-> kept[i].score])
    IN  [i \in 1..Len(sorted) |-> sorted[i].link]

(***************************************************************************)
(* The classifier stage.  The outcome of one chatCompletion call is either *)
(* a failure (the call throws) or a RankingResponse: a list of             *)
(* {index, relevanceScore, category, rationale}.                           *)
(***************************************************************************)
\* batch sizes, relevance scores and categories the model draws from
BatchSizes == {1, 2}

ScoreValues == {30, 90}

ResponseCategories == {"budget"}

Failure == [ok |-> FALSE, rankedLinks |-> <<>>]

Response(rankings) == [ok |-> TRUE, rankedLinks |-> rankings]

Ranking(index, score, category) ==
    [index |-> index, relevanceScore |-> score, category |-> category,
     rationale |-> "from classifier"]

RankedLink(link, score, category, rationale) ==
    [url |-> link.url, anchorText |-> link.anchorText, context |-> link.context,
     relevanceScore |-> score, category |-> category, rationale |-> rationale]

\* faulty variant: a failed batch yields no entry
defaultRankedNone(links) == <<>>

\* the catch branch of rankBatch: every link of the batch, score 0.1, "other"
defaultRanked(links) ==
    [i \in 1..Len(links) |-> RankedLink(links[i], 10, "other", "Error during ranking")]

\* faulty variant: the index is taken as counting from 1
mapRankingsOneBased(links, rankings) ==
    LET hit == SelectSeq(rankings, LAMBDA r : r.index \in 1..Len(links))
    IN  [i \in 1..Len(hit) |->
            RankedLink(links[hit[i].index], hit[i].relevanceScore,
                       hit[i].category, hit[i].rationale)]

\* the try branch: links[ranking.index] of the batch (0-based), null when
\* there is no such element, nulls filtered out
mapRankings(links, rankings) ==
    LET hit == SelectSeq(rankings, LAMBDA r : r.index \in 0..(Len(links) - 1))
    IN  [i \in 1..Len(hit) |->
            RankedLink(links[hit[i].index + 1], hit[i].relevanceScore,
                       hit[i].category, hit[i].rationale)]

\* rankBatch(links, config, startIndex) under the outcome of its classifier call
rankBatch(links, outcome) ==
    IF outcome.ok THEN mapRankings(links, outcome.rankedLinks)
    ELSE defaultRanked(links)

\* links.slice(i, i + batchSize), i 0-based
slice(links, i, j) ==
    SubSeq(links, i + 1, IF j < Len(links) THEN j ELSE Len(links))

\* number of iterations of  for (i = 0; i < links.length; i += batchSize)
numBatches(n, batchSize) == (n + batchSize - 1) \div batchSize

\* the loop of rankLinks from index i on; outcomes[k] is the outcome of the
\* k-th classifier call
RECURSIVE rankLoop(_, _, _, _, _)
rankLoop(links, batchSize, i, outcomes, k) ==
    IF i >= Len(links) THEN <<>>
    ELSE rankBatch(slice(links, i, i + batchSize), outcomes[k])
            \o rankLoop(links, batchSize, i + batchSize, outcomes, k + 1)

\* faulty variant: the batches are concatenated and returned as they came
rankLinksUnsorted(links, batchSize, outcomes) ==
    IF Len(links) = 0 THEN <<>>
    ELSE rankLoop(links, batchSize, 0, outcomes, 1)

\* rankLinks(links, config)
rankLinks(links, batchSize, outcomes) ==
    IF Len(links) = 0 THEN <<>>
    ELSE LET rankedLinks == rankLoop(links, batchSize, 0, outcomes, 1)
         IN  sortDescBy(rankedLinks,
                        [i \in 1..Len(rankedLinks) |-> rankedLinks[i].relevanceScore])

\* faulty variant: a link scored exactly minScore is dropped
filterByScoreAbove(links, minScore) ==
    SelectSeq(links, LAMBDA l : l.relevanceScore > minScore)

\* filterByScore(links, minScore)
filterByScore(links, minScore) ==
    SelectSeq(links, LAMBDA l : l.relevanceScore >= minScore)

\* the LinkCategory values
LinkCategories ==
    {"budget", "finance", "procurement", "contact", "meeting", "policy", "project",
     "department", "document", "other"}

\* the loop of groupByCategory: groups[link.category].push(link)
RECURSIVE groupLoop(_, _)
groupLoop(links, groups) ==
    IF links = <<>> THEN groups
    ELSE groupLoop(Tail(links),
                   [groups EXCEPT ![Head(links).category] = Append(@, Head(links))])

\* groupByCategory(links)
groupByCategory(links) == groupLoop(links, [c \in LinkCategories |-> <<>>])

(***************************************************************************)
(* The pre-filter of the extractor and the domain fence of the scheduler.  *)
(***************************************************************************)
\* s.endsWith(suffix) on label sequences, suffix = "." + the labels of d
endsWithDot(s, d) ==
    /\ Len(s) > Len(d)
    /\ SubSeq(s, Len(s) - Len(d) + 1, Len(s)) = d

\* domain.replace(/^www\./, "")
stripWww(d) == IF Len(d) > 1 /\ d[1] = "www" THEN Tail(d) ELSE d

\* isSameDomain(domain1, domain2)
isSameDomain(domain1, domain2) ==
    IF domain1 = domain2 THEN TRUE
    ELSE LET d1 == stripWww(domain1)
             d2 == stripWww(domain2)
         IN  IF d1 = d2 THEN TRUE
             ELSE endsWithDot(d2, d1) \/ endsWithDot(d1, d2)

\* words that end in one of the asset extensions of skipPatterns[0]
EndsInAsset(w) == w \in {"logo.png", "site.css"}

\* origins matched by /^https?:\/\/(www\.)?(facebook|twitter|...)\./i
SocialOrigins == {"https://www.facebook.com"}

\* path segments that start with login, signin, signup or cart
StartsWithAccountWord(w) == toLowerCase(w) \in {"login", "signin", "signup", "cart"}

\* some skipPattern matches the URL string
skipPatternMatches(url) ==
    \/ EndsInAsset(Last(url))
    \/ url[1] \in SocialOrigins
    \/ \E i \in 1..(Len(url) - 2) :
          url[i] = "/" /\ toLowerCase(url[i + 1]) \in {"share", "search"} /\ url[i + 2] = "?"
    \/ \E i \in 1..(Len(url) - 1) : url[i] = "/" /\ StartsWithAccountWord(url[i + 1])
    \/ \E i \in 1..(Len(url) - 1) :
          url[i] = "?" /\ ParamName(url[i + 1]) \in
              {"utm_source", "utm_medium", "utm_campaign", "utm_content"}

\* origins whose host ends in .gov or .edu
GovEduOrigins == {"https://a.gov", "https://www.a.gov", "https://sub.a.gov"}

\* valuableExternalPatterns.some((p) => p.test(link.url))
valuableExternal(url) ==
    \/ Len(url) >= 2 /\ url[1] \in GovEduOrigins /\ url[2] = "/"
    \/ \E i \in 1..Len(url) :
          Sub(toLowerCase(url[i])) \cap {"budget", "finance", "procurement", "rfp", "bid"} # {}

\* the sameDomain test of preFilterLinks: no www handling
preFilterSameDomain(linkHost, baseHost) ==
    \/ linkHost = baseHost
    \/ endsWithDot(linkHost, baseHost)
    \/ endsWithDot(baseHost, linkHost)

\* the predicate of links.filter in preFilterLinks
preFilterKeeps(link, baseUrl) ==
    IF ~CanParse(link.url) THEN FALSE
    ELSE IF skipPatternMatches(link.url) THEN FALSE
    ELSE IF ~preFilterSameDomain(hostnameOf(link.url[1]), hostnameOf(baseUrl[1]))
         THEN valuableExternal(link.url)
         ELSE TRUE

\* preFilterLinks(links, baseUrl)
preFilterLinks(links, baseUrl) ==
    SelectSeq(links, LAMBDA l : preFilterKeeps(l, baseUrl))

(***************************************************************************)
(* Links of the modelled site.                                             *)
(***************************************************************************)
RfpAnchor == <<"FY2025", "RFP", "for", "IT", "Services">>

LBudget == ExtractedLink(<<"https://a.gov", "/", "budget">>, <<"Budget">>, <<"Budget">>)
LBudgetSlash == ExtractedLink(<<"https://a.gov", "/", "budget", "/">>, <<"Budget">>, <<"Budget">>)
LRfp == ExtractedLink(<<"https://a.gov", "/", "docs">>, RfpAnchor, RfpAnchor)
LHome == ExtractedLink(<<"https://a.gov", "/", "#", "top">>, <<"Contact">>, <<"Contact">>)
LAbout == ExtractedLink(<<"https://a.gov", "/", "about">>, <<"About">>, <<"About">>)
LExternal == ExtractedLink(<<"https://b.com", "/", "bid">>, <<"Forbidden">>, <<"Forbidden">>)
LLogin == ExtractedLink(<<"https://a.gov", "/", "login">>, <<"Staff", "Login">>, <<"Staff", "Login">>)
LSolicitation == ExtractedLink(<<"https://sub.a.gov", "/", "docs">>, <<"Solicitation">>, <<"Solicitation">>)
LAnnual == ExtractedLink(<<"https://a.gov", "/", "docs", "/", "report.pdf">>,
                         <<"Annual", "Financial", "Report">>, <<"Annual", "Financial", "Report">>)
LReversed == ExtractedLink(<<"https://a.gov", "/", "docs", "/">>,
                           <<"Report", "Financial">>, <<"Financial">>)

(***************************************************************************)
(* Well-formed URL strings, built by the grammar                           *)
(*   origin path [ "?" pair ( "&" pair )* ] [ "#" [ text ] ]               *)
(***************************************************************************)
PathTokens == {"/", "docs"}

Paths == {<<>>} \cup {p \in SeqsUpTo(PathTokens, MaxPathLen) : p # <<>> /\ p[1] = "/"}

Queries == {<<>>} \cup {<<"?">> \o Join(ps, "&") : ps \in SeqsUpTo(ParamTokens, MaxParams)}

Fragments == {<<>>, <<"#">>, <<"#", "top">>}

WellFormedUrls ==
    {<<"https://a.gov">> \o p \o q \o f : p \in Paths, q \in Queries, f \in Fragments}

(***************************************************************************)
(* Specification of normalizeUrl as a function of its input.               *)
(***************************************************************************)
CrawlIdle ==
    /\ seedUrl = <<>>
    /\ cfg = [maxDepth |-> 0]
    /\ seedDomain = <<>>
    /\ visited = {}
    /\ queue = <<>>
    /\ pages = <<>>
    /\ allRankedLinks = <<>>
    /\ errors = <<>>
    /\ fetched = <<>>
    /\ llmCalls = 0
    /\ browserInstance = FALSE
    /\ browserContext = FALSE
    /\ launches = 0
    /\ closes = 0
    /\ sleeps = <<>>
    /\ progress = <<>>
    /\ insertion = [at |-> <<>>, count |-> 0]

InitNormalize ==
    /\ pc = "normalize"
    /\ arg \in WellFormedUrls
    /\ res = <<>>
    /\ CrawlIdle

\* u1 = normalizeUrl(u)
NormalizeOnce ==
    /\ pc = "normalize"
    /\ res' = <<normalizeUrl(arg)>>
    /\ pc' = "normalized"
    /\ UNCHANGED <<arg, crawlVars>>

\* u2 = normalizeUrl(u1)
NormalizeAgain ==
    /\ pc = "normalized"
    /\ res' = Append(res, normalizeUrl(res[1]))
    /\ pc' = "renormalized"
    /\ UNCHANGED <<arg, crawlVars>>

NextNormalize == NormalizeOnce \/ NormalizeAgain

SpecNormalize == InitNormalize /\ [][NextNormalize]_vars

\* C5: normalizeUrl is idempotent on well-formed URLs,
\* normalizeUrl(normalizeUrl(u)) = normalizeUrl(u), and its result carries
\* no fragment, none of the five tracking parameters and no trailing slash
\* (the single slash that is the whole path of a root URL is not counted as
\* a trailing one: the serializer always prints it).
C5_NormalizeIdempotentClean ==
    pc = "renormalized" =>
        /\ res[2] = res[1]
        /\ "#" \notin Range(res[1])
        /\ \A t \in Range(res[1]) : \A i \in 1..Len(TrackingParams) :
               ParamName(t) # TrackingParams[i]
        /\ Last(res[1]) = "/" => Len(res[1]) = 2

(***************************************************************************)
(* The page extractor: extractLinksFromUrl(url).  What the renderer does   *)
(* during one call is a record: whether chromium.launch succeeds (it is    *)
(* only called when there is no context), whether context.newPage()        *)
(* succeeds, how page.goto ends, and whether the extraction calls succeed. *)
(***************************************************************************)
RendererBehaviours ==
    [launch : {"ok", "throws"},
     newPage : {"ok", "throws"},
     goto : {"ok", "timeout", "noResponse", "status404"},
     extract : {"ok", "throws"}]

\* how a call of extractLinksFromUrl ends: "page" (a PageContent is
\* returned), "null", or "throw" (the promise rejects).  getContext() and
\* context.newPage() run before the try block; everything from page.goto
\* on is inside it, and its catch returns null.
extractLinksFromUrl(contextReady, env) ==
    IF ~contextReady /\ env.launch = "throws" THEN "throw"
    ELSE IF env.newPage = "throws" THEN "throw"
    ELSE IF env.goto = "timeout" THEN "null"
    ELSE IF env.goto = "noResponse" THEN "null"
    ELSE IF env.goto = "status404" THEN "null"
    ELSE IF env.extract = "throws" THEN "null"
    ELSE "page"

\* the ways a call can end, over everything the renderer may do
extractorOutcomes(contextReady) ==
    {extractLinksFromUrl(contextReady, env) : env \in RendererBehaviours}

(***************************************************************************)
(* The crawl scheduler: crawl(seedUrl, config).                            *)
(***************************************************************************)
\* an optional field is <<>> when undefined and <<v>> when it holds v
Undefined == <<>>

Some(v) == <<v>>

DefaultBatchSize == 50

DefaultMinScoreToFollow == 50

DefaultRequestDelayMs == 1000

QueueItem(url, depth, parentUrl, score) ==
    [url |-> url, depth |-> depth, parentUrl |-> parentUrl, score |-> score]

\* (item.score || 0)
scoreOrZero(item) == IF item.score = Undefined THEN 0 ELSE item.score[1]

\* faulty variant: the queue is left in insertion order
sortQueueFifo(q) == q

\* queue.sort((a, b) => (b.score || 0) - (a.score || 0))
sortQueue(q) == sortDescBy(q, [i \in 1..Len(q) |-> scoreOrZero(q[i])])

\* faulty variant: the loop goes on while pages.length equals maxPages
loopGuardLe(q, p, maxPages) == Len(q) > 0 /\ Len(p) <= maxPages

\* while (queue.length > 0 && pages.length < cfg.maxPages)
loopGuard(q, p, maxPages) == Len(q) > 0 /\ Len(p) < maxPages

\* faulty variant: nothing is ever found in the visited set
isVisitedNever(v, url) == FALSE

\* visited.has(normalizedUrl)
isVisited(v, url) == url \in v

\* faulty variant: the URL is not added to the visited set
markVisitedNot(v, url) == v

\* visited.add(normalizedUrl)
markVisited(v, url) == v \cup {url}

\* faulty variant: the restriction is not applied
domainAllowedAlways(sameDomainOnly, seedHost, url) == TRUE

\* the domain restriction: passes unless sameDomainOnly and the URL does not
\* parse or its hostname is not in the seed's domain
domainAllowed(sameDomainOnly, seedHost, url) ==
    IF sameDomainOnly
    THEN IF CanParse(url) THEN isSameDomain(seedHost, hostnameOf(url[1])) ELSE FALSE
    ELSE TRUE

\* faulty variant: links are also processed at depth maxDepth
shouldProcessLinksLe(depth, maxDepth, links) == depth <= maxDepth /\ Len(links) > 0

\* if (item.depth < cfg.maxDepth && pageContent.links.length > 0)
shouldProcessLinks(depth, maxDepth, links) == depth < maxDepth /\ Len(links) > 0

\* faulty variant: the classifier is asked about every pre-filtered link
llmInputUnfiltered(links, baseUrl, useLlmRanking) ==
    IF useLlmRanking THEN preFilterLinks(links, baseUrl) ELSE <<>>

\* the links the classifier is asked about for a page: the heuristic
\* survivors when LLM ranking is on, none otherwise
llmInput(links, baseUrl, useLlmRanking) ==
    IF useLlmRanking THEN heuristicRank(preFilterLinks(links, baseUrl)) ELSE <<>>

\* `ranked` for a page whose links are processed
rankPage(links, baseUrl, useLlmRanking, batchSize, outcomes) ==
    LET filtered == preFilterLinks(links, baseUrl)
        heuristicFiltered == heuristicRank(filtered)
    IN  IF useLlmRanking
        THEN IF Len(heuristicFiltered) > 0
             THEN rankLinks(heuristicFiltered, batchSize, outcomes)
             ELSE <<>>
        ELSE [i \in 1..Len(heuristicFiltered) |->
                 RankedLink(heuristicFiltered[i], 50, "other", "Heuristic match")]

\* faulty variant: links whose URL is already visited are pushed too
enqueuedAll(highValue, v, depth, parentUrl) ==
    [i \in 1..Len(highValue) |->
        QueueItem(highValue[i].url, depth + 1, Some(parentUrl),
                  Some(highValue[i].relevanceScore))]

\* the items pushed for the high-value links of a page
enqueued(highValue, v, depth, parentUrl) ==
    LET fresh == SelectSeq(highValue, LAMBDA l : ~isVisited(v, normalizeUrl(l.url)))
    IN  [i \in 1..Len(fresh) |->
            QueueItem(fresh[i].url, depth + 1, Some(parentUrl), Some(fresh[i].relevanceScore))]

\* initBrowser(): launches unless a browser is already there
initBrowser ==
    IF browserInstance
    THEN UNCHANGED <<browserInstance, browserContext, launches>>
    ELSE /\ browserInstance' = TRUE
         /\ browserContext' = TRUE
         /\ launches' = launches + 1

\* getContext(): initBrowser() when there is no context
getContext ==
    IF browserContext
    THEN UNCHANGED <<browserInstance, browserContext, launches>>
    ELSE initBrowser

\* closeBrowser()
closeBrowser ==
    /\ browserContext' = FALSE
    /\ browserInstance' = FALSE
    /\ closes' = closes + 1

(***************************************************************************)
(* Inputs of a run: the seed, the configuration, what each fetched page    *)
(* links to and what the classifier answers.                               *)
(***************************************************************************)
SeedRoot == <<"https://a.gov">>

SeedMalformed == <<"a.gov", "/", "budget">>

Seeds == {SeedRoot, SeedMalformed}

Configs ==
    [maxDepth : 0..MaxDepthBound,
     maxPages : 0..MaxPagesBound,
     minScoreToFollow : {DefaultMinScoreToFollow},
     useLlmRanking : BOOLEAN,
     sameDomainOnly : BOOLEAN,
     batchSize : {DefaultBatchSize},
     requestDelayMs : {DefaultRequestDelayMs},
     onProgress : {TRUE}]

\* link lists a page may carry (deduplicateLinks leaves one link per URL):
\* no link, a link to /budget, a link back to the root, two spellings of
\* /budget, links the filters drop, and an off-site link
PageLinkLists ==
    { <<>>,
      <<LBudget>>,
      <<LHome>>,
      <<LBudget, LBudgetSlash>>,
      <<LBudgetSlash, LAbout>>,
      <<LExternal, LHome>>,
      <<LAbout, LLogin>>,
      <<LSolicitation, LBudget>>,
      <<LRfp, LBudgetSlash>> }

\* answers of the classifier during a crawl, per batch of n links: a
\* failure, a ranking of every link, or the first link ranked twice
CrawlOutcomes(n) ==
    {Failure}
        \cup {Response([i \in 1..n |-> Ranking(i - 1, sc[i], "budget")]) :
                 sc \in [1..n -> ScoreValues]}
        \cup {Response(<<Ranking(0, 90, "budget"), Ranking(0, 90, "budget")>>)}

RECURSIVE CrawlOutcomeSeqs(_, _)
CrawlOutcomeSeqs(n, batchSize) ==
    IF n <= 0 THEN {<<>>}
    ELSE {<<o>> \o rest :
            o \in CrawlOutcomes(IF n < batchSize THEN n ELSE batchSize),
            rest \in CrawlOutcomeSeqs(n - batchSize, batchSize)}

Init ==
    /\ pc = "start"
    /\ seedUrl \in Seeds
    /\ cfg \in Configs
    /\ seedDomain = <<>>
    /\ visited = {}
    /\ queue = <<>>
    /\ pages = <<>>
    /\ allRankedLinks = <<>>
    /\ errors = <<>>
    /\ fetched = <<>>
    /\ llmCalls = 0
    /\ browserInstance = FALSE
    /\ browserContext = FALSE
    /\ launches = 0
    /\ closes = 0
    /\ sleeps = <<>>
    /\ progress = <<>>
    /\ insertion = [at |-> <<>>, count |-> 0]
    /\ arg = <<>>
    /\ res = <<>>

\* crawl up to the loop: the seed parses
CrawlStart ==
    /\ pc = "start"
    /\ initBrowser
    /\ CanParse(normalizeUrl(seedUrl))
    /\ seedDomain' = hostnameOf(normalizeUrl(seedUrl)[1])
    /\ queue' = <<QueueItem(normalizeUrl(seedUrl), 0, Undefined, Undefined)>>
    /\ insertion' = [at |-> <<1>>, count |-> 1]
    /\ pc' = "loop"
    /\ UNCHANGED <<seedUrl, cfg, visited, pages, allRankedLinks, errors, fetched,
                   llmCalls, closes, sleeps, progress, arg, res>>

\* crawl up to new URL(normalizedSeed), which throws
CrawlStartThrows ==
    /\ pc = "start"
    /\ initBrowser
    /\ ~CanParse(normalizeUrl(seedUrl))
    /\ pc' = "thrown"
    /\ UNCHANGED <<seedUrl, cfg, seedDomain, visited, queue, pages, allRankedLinks,
                   errors, fetched, llmCalls, closes, sleeps, progress, insertion,
                   arg, res>>

\* const item = queue.shift()!, after the sort
nextItem == Head(sortQueue(queue))

restQueue == Tail(sortQueue(queue))

\* history: the ranks of the items left after the sort and the shift, then
\* those of the items the iteration pushed behind them to give the queue q
insertionAfter(q) ==
    LET ranked == sortQueue([i \in 1..Len(queue) |->
                                [score |-> queue[i].score, at |-> insertion.at[i]]])
        pushed == Len(q) - (Len(queue) - 1)
    IN  [at |-> [i \in 1..(Len(queue) - 1) |-> ranked[i + 1].at]
                   \o [i \in 1..pushed |-> insertion.count + i],
         count |-> insertion.count + pushed]

\* an iteration that ends at `continue` because the URL is already visited
IterSkipVisited ==
    /\ pc = "loop"
    /\ loopGuard(queue, pages, cfg.maxPages)
    /\ \E item \in {nextItem} : \E normalizedUrl \in {normalizeUrl(item.url)} :
          isVisited(visited, normalizedUrl)
    /\ queue' = restQueue
    /\ insertion' = insertionAfter(queue')
    /\ UNCHANGED <<pc, seedUrl, cfg, seedDomain, visited, pages, allRankedLinks,
                   errors, fetched, llmCalls, browserInstance, browserContext,
                   launches, closes, sleeps, progress, arg, res>>

\* an iteration that ends at `continue` in the domain restriction
IterSkipDomain ==
    /\ pc = "loop"
    /\ loopGuard(queue, pages, cfg.maxPages)
    /\ \E item \in {nextItem} : \E normalizedUrl \in {normalizeUrl(item.url)} :
          /\ ~isVisited(visited, normalizedUrl)
          /\ ~domainAllowed(cfg.sameDomainOnly, seedDomain, normalizedUrl)
    /\ queue' = restQueue
    /\ insertion' = insertionAfter(queue')
    /\ UNCHANGED <<pc, seedUrl, cfg, seedDomain, visited, pages, allRankedLinks,
                   errors, fetched, llmCalls, browserInstance, browserContext,
                   launches, closes, sleeps, progress, arg, res>>

\* allRankedLinks.filter((l) => l.relevanceScore >= 0.7).length
highValueCount(links) == Len(SelectSeq(links, LAMBDA l : l.relevanceScore >= 70))

\* the CrawlProgress record built after queue.shift() and visited.add()
CrawlProgress(item, normalizedUrl) ==
    [pagesProcessed |-> Len(pages),
     pagesQueued |-> Len(queue) - 1,
     linksFound |-> Len(allRankedLinks),
     highValueLinksFound |-> highValueCount(allRankedLinks),
     currentUrl |-> normalizedUrl,
     currentDepth |-> item.depth]

\* if (queue.length > 0) await sleep(cfg.requestDelayMs), for the queue q
\* the iteration leaves
politenessDelay(q) ==
    sleeps' = IF Len(q) > 0 THEN Append(sleeps, cfg.requestDelayMs) ELSE sleeps

\* what every iteration that reaches extractLinksFromUrl does before it
ReachesFetch(item, normalizedUrl, outcome) ==
    /\ ~isVisited(visited, normalizedUrl)
    /\ domainAllowed(cfg.sameDomainOnly, seedDomain, normalizedUrl)
    /\ visited' = markVisited(visited, normalizedUrl)
    /\ outcome \in extractorOutcomes(browserContext)
    /\ getContext
    /\ progress' = IF cfg.onProgress
                   THEN Append(progress, CrawlProgress(item, normalizedUrl))
                   ELSE progress
    /\ fetched' = Append(fetched,
                         [url |-> normalizedUrl, depth |-> item.depth, outcome |-> outcome])

\* extractLinksFromUrl returns null: the error is recorded
IterFetchNull ==
    /\ pc = "loop"
    /\ loopGuard(queue, pages, cfg.maxPages)
    /\ \E item \in {nextItem} : \E normalizedUrl \in {normalizeUrl(item.url)} :
          /\ ReachesFetch(item, normalizedUrl, "null")
          /\ errors' = Append(errors, [url |-> normalizedUrl, error |-> "Failed to fetch"])
    /\ queue' = restQueue
    /\ insertion' = insertionAfter(queue')
    /\ UNCHANGED <<pc, seedUrl, cfg, seedDomain, pages, allRankedLinks, llmCalls,
                   closes, sleeps, arg, res>>

\* extractLinksFromUrl rejects (context.newPage() or page.close() fails,
\* outside its try block): crawl has no handler and rejects too
IterFetchThrows ==
    /\ pc = "loop"
    /\ loopGuard(queue, pages, cfg.maxPages)
    /\ \E item \in {nextItem} : \E normalizedUrl \in {normalizeUrl(item.url)} :
          ReachesFetch(item, normalizedUrl, "throw")
    /\ queue' = restQueue
    /\ insertion' = insertionAfter(queue')
    /\ pc' = "thrown"
    /\ UNCHANGED <<seedUrl, cfg, seedDomain, pages, allRankedLinks, errors, llmCalls,
                   closes, sleeps, arg, res>>

\* faulty variant: the page is not stored
pagesPushNone(p, pageContent) == p

\* pages.push(pageContent)
pagesPush(p, pageContent) == Append(p, pageContent)

\* extractLinksFromUrl returns the page: it is stored and its links are
\* filtered, ranked and enqueued
IterFetchPage ==
    /\ pc = "loop"
    /\ loopGuard(queue, pages, cfg.maxPages)
    /\ \E item \in {nextItem} : \E normalizedUrl \in {normalizeUrl(item.url)} :
       \E rest \in {restQueue} :
          /\ ReachesFetch(item, normalizedUrl, "page")
          /\ CanParse(normalizedUrl)
          /\ \E links \in PageLinkLists :
                /\ pages' = pagesPush(pages, [url |-> normalizedUrl, links |-> links])
                /\ IF shouldProcessLinks(item.depth, cfg.maxDepth, links)
                   THEN \E outcomes \in CrawlOutcomeSeqs(
                                Len(llmInput(links, normalizedUrl, cfg.useLlmRanking)),
                                cfg.batchSize) :
                        \E ranked \in {rankPage(links, normalizedUrl, cfg.useLlmRanking,
                                                cfg.batchSize, outcomes)} :
                           /\ allRankedLinks' = allRankedLinks \o ranked
                           /\ llmCalls' = llmCalls + Len(outcomes)
                           /\ queue' = rest \o
                                  enqueued(filterByScore(ranked, cfg.minScoreToFollow),
                                           markVisited(visited, normalizedUrl),
                                           item.depth, normalizedUrl)
                   ELSE /\ queue' = rest
                        /\ UNCHANGED <<allRankedLinks, llmCalls>>
                /\ politenessDelay(queue')
                /\ insertion' = insertionAfter(queue')
    /\ UNCHANGED <<pc, seedUrl, cfg, seedDomain, errors, closes, arg, res>>

\* the loop condition fails: closeBrowser() and return the CrawlResult
CrawlReturn ==
    /\ pc = "loop"
    /\ ~loopGuard(queue, pages, cfg.maxPages)
    /\ closeBrowser
    /\ pc' = "done"
    /\ UNCHANGED <<seedUrl, cfg, seedDomain, visited, queue, pages, allRankedLinks,
                   errors, fetched, llmCalls, launches, sleeps, progress, insertion,
                   arg, res>>

Next ==
    \/ CrawlStart
    \/ CrawlStartThrows
    \/ IterSkipVisited
    \/ IterSkipDomain
    \/ IterFetchNull
    \/ IterFetchThrows
    \/ IterFetchPage
    \/ CrawlReturn

Spec == Init /\ [][Next]_vars

(***************************************************************************)
(* Specification of heuristicRank as a function of its input.              *)
(***************************************************************************)
HeurPool == {LBudget, LRfp, LHome, LAbout, LSolicitation, LAnnual, LReversed}

InitHeuristic ==
    /\ pc = "heuristic"
    /\ arg \in SeqsUpTo(HeurPool, MaxHeurLinks)
    /\ res = <<>>
    /\ CrawlIdle

\* res.scored is the function's local `scored`, res.out what it returns
HeuristicRankCall ==
    /\ pc = "heuristic"
    /\ res' = [scored |-> heuristicScored(arg), out |-> heuristicRank(arg)]
    /\ pc' = "heuristicDone"
    /\ UNCHANGED <<arg, crawlVars>>

NextHeuristic == HeuristicRankCall

SpecHeuristic == InitHeuristic /\ [][NextHeuristic]_vars

\* the weights of the table patterns that match the link's text
MatchedWeights(link) ==
    {highValuePatterns[k].weight : k \in
        {j \in 1..Len(highValuePatterns) : patternTest(highValuePatterns[j], textToCheck(link))}}

SetMax(S) == CHOOSE m \in S : \A x \in S : x <= m

Injections(n) == {f \in [1..n -> 1..n] : \A i, j \in 1..n : f[i] = f[j] => i = j}

\* C10: heuristicRank calls no classifier; each link's score is the greatest
\* weight among the table patterns its text matches; the result is exactly
\* the links with a match, by descending score, ties in input order; a link
\* anchored "FY2025 RFP for IT Services" scores 0.95.
C10_HeuristicRank ==
    pc = "heuristicDone" =>
        LET matched == SelectSeq(arg, LAMBDA l : MatchedWeights(l) # {})
            w(l) == SetMax(MatchedWeights(l))
            n == Len(matched)
        IN  /\ llmCalls = 0
            /\ \A i \in 1..Len(arg) :
                   /\ res.scored[i].link = arg[i]
                   /\ res.scored[i].score =
                        IF MatchedWeights(arg[i]) = {} THEN 0 ELSE w(arg[i])
                   /\ arg[i].anchorText = RfpAnchor => res.scored[i].score = 95
            /\ Len(res.out) = n
            /\ \E f \in Injections(n) :
                   /\ \A i \in 1..n : res.out[i] = matched[f[i]]
                   /\ \A i, j \in 1..n : i < j =>
                          \/ w(matched[f[i]]) > w(matched[f[j]])
                          \/ w(matched[f[i]]) = w(matched[f[j]]) /\ f[i] < f[j]

\* a call that drops a link, reorders the rest and scores the RFP anchor
C10_Witness ==
    /\ pc = "heuristicDone"
    /\ \E i \in 1..Len(arg) : arg[i].anchorText = RfpAnchor
    /\ Len(res.out) = 2
    /\ Len(arg) = 3
    /\ res.out[1] = arg[3]

(***************************************************************************)
(* Specification of rankLinks as a function of its input and of the        *)
(* outcomes of its classifier calls.                                       *)
(***************************************************************************)
\* responses to a batch of n links: up to n + 1 rankings, whose indices may
\* repeat or name no link of the batch (index n)
Rankings(n) ==
    {Ranking(i, sc, c) : i \in 0..n, sc \in ScoreValues, c \in ResponseCategories}

Outcomes(n) == {Failure} \cup {Response(r) : r \in SeqsUpTo(Rankings(n), n + 1)}

RECURSIVE OutcomeSeqs(_, _)
OutcomeSeqs(n, batchSize) ==
    IF n <= 0 THEN {<<>>}
    ELSE {<<o>> \o rest :
            o \in Outcomes(IF n < batchSize THEN n ELSE batchSize),
            rest \in OutcomeSeqs(n - batchSize, batchSize)}

RankPool == {LBudget, LAbout}

InitRank ==
    /\ pc = "rank"
    /\ arg \in [links : SeqsUpTo(RankPool, MaxRankLinks), batchSize : BatchSizes]
    /\ res = <<>>
    /\ CrawlIdle

RankLinksCall ==
    /\ pc = "rank"
    /\ \E outcomes \in OutcomeSeqs(Len(arg.links), arg.batchSize) :
          /\ res' = [outcomes |-> outcomes,
                     ranked |-> rankLinks(arg.links, arg.batchSize, outcomes)]
          /\ llmCalls' = llmCalls + Len(outcomes)
    /\ pc' = "ranked"
    /\ UNCHANGED <<arg, seedUrl, cfg, seedDomain, visited, queue, pages,
                   allRankedLinks, errors, fetched, browserInstance,
                   browserContext, launches, closes, sleeps, progress, insertion>>

NextRank == RankLinksCall

SpecRank == InitRank /\ [][NextRank]_vars

\* the input links that fell into a batch whose classifier call failed
RECURSIVE FailedLinks(_, _, _)
FailedLinks(links, batchSize, outcomes) ==
    IF links = <<>> THEN <<>>
    ELSE LET n == IF Len(links) < batchSize THEN Len(links) ELSE batchSize
         IN  (IF Head(outcomes).ok THEN <<>> ELSE SubSeq(links, 1, n))
                 \o FailedLinks(SubSeq(links, n + 1, Len(links)), batchSize, Tail(outcomes))

Count(s, x) == Cardinality({i \in 1..Len(s) : s[i] = x})

LinkOf(r) == ExtractedLink(r.url, r.anchorText, r.context)

\* C9: a failed classifier call makes rankLinks return every link of that
\* batch with score 0.1 and category "other"; when every call fails the
\* result holds exactly one entry per input link.
C9_FailOpenRanker ==
    pc = "ranked" =>
        LET failed == FailedLinks(arg.links, arg.batchSize, res.outcomes)
            byDefault == SelectSeq(res.ranked, LAMBDA r : r.rationale = "Error during ranking")
            asLinks == [i \in 1..Len(res.ranked) |-> LinkOf(res.ranked[i])]
        IN  /\ Len(byDefault) = Len(failed)
            /\ \A i \in 1..Len(byDefault) :
                   byDefault[i].relevanceScore = 10 /\ byDefault[i].category = "other"
            /\ \A i \in 1..Len(failed) :
                   Count([j \in 1..Len(byDefault) |-> LinkOf(byDefault[j])], failed[i])
                       = Count(failed, failed[i])
            /\ (\A k \in 1..Len(res.outcomes) : ~res.outcomes[k].ok) =>
                   /\ Len(res.ranked) = Len(arg.links)
                   /\ \A i \in 1..Len(arg.links) :
                          Count(asLinks, arg.links[i]) = Count(arg.links, arg.links[i])

\* two batches, the first answered, the second failed
C9_Witness ==
    /\ pc = "ranked"
    /\ Len(res.outcomes) = 2
    /\ res.outcomes[1].ok /\ Len(res.outcomes[1].rankedLinks) = 1
    /\ ~res.outcomes[2].ok
    /\ Len(res.ranked) = 2
    /\ res.ranked[2].relevanceScore = 10

\* C17: the list rankLinks returns is sorted by non-increasing
\* relevanceScore across all batches together, whatever the classifier
\* answers.
C17_RankedSortedAcrossBatches ==
    pc = "ranked" =>
        \A i, j \in 1..Len(res.ranked) :
            i < j => res.ranked[i].relevanceScore >= res.ranked[j].relevanceScore

\* two batches of one link each, the second scored above the first: the
\* link of the second batch comes first in the result
C17_Witness ==
    /\ pc = "ranked"
    /\ arg.batchSize = 1
    /\ Len(res.outcomes) = 2
    /\ res.outcomes[1].ok /\ res.outcomes[2].ok
    /\ Len(res.outcomes[1].rankedLinks) = 1 /\ Len(res.outcomes[2].rankedLinks) = 1
    /\ res.outcomes[1].rankedLinks[1].relevanceScore
          < res.outcomes[2].rankedLinks[1].relevanceScore
    /\ Len(res.ranked) = 2
    /\ LinkOf(res.ranked[1]) = arg.links[2]
    /\ arg.links[1] # arg.links[2]

\* the links of the k-th batch: links (k-1)*batchSize + 1 .. k*batchSize
BatchOf(k) ==
    SubSeq(arg.links, (k - 1) * arg.batchSize + 1,
           IF k * arg.batchSize < Len(arg.links) THEN k * arg.batchSize ELSE Len(arg.links))

\* the answers <<k, j>> of successful calls whose index names a link of the
\* batch: the j-th ranking of the k-th response
MatchedAnswers ==
    {a \in (1..Len(res.outcomes)) \X (1..(MaxRankLinks + 2)) :
        /\ res.outcomes[a[1]].ok
        /\ a[2] <= Len(res.outcomes[a[1]].rankedLinks)
        /\ res.outcomes[a[1]].rankedLinks[a[2]].index \in 0..(Len(BatchOf(a[1])) - 1)}

\* the RankedLink the answer a stands for
AnswerEntry(a) ==
    LET r == res.outcomes[a[1]].rankedLinks[a[2]]
        link == BatchOf(a[1])[r.index + 1]
    IN  [url |-> link.url, anchorText |-> link.anchorText, context |-> link.context,
         relevanceScore |-> r.relevanceScore, category |-> r.category,
         rationale |-> r.rationale]

\* C27: for a batch whose classifier call succeeds, every returned
\* RankedLink is the batch's link at the returned index with the returned
\* score, category and rationale; an answer whose index names no link of the
\* batch is discarded.
C27_MappedByBatchIndex ==
    pc = "ranked" =>
        LET answered == SelectSeq(res.ranked, LAMBDA r : r.rationale # "Error during ranking")
        IN  /\ \A i \in 1..Len(answered) :
                  \E a \in MatchedAnswers : answered[i] = AnswerEntry(a)
            /\ \A a \in MatchedAnswers :
                  Cardinality({i \in 1..Len(answered) : answered[i] = AnswerEntry(a)})
                      = Cardinality({b \in MatchedAnswers : AnswerEntry(b) = AnswerEntry(a)})
            /\ Len(answered) = Cardinality(MatchedAnswers)

\* two batches of one link: the second response names index 0, the second
\* link of the input, and index 1, which names no link of its batch
C27_Witness ==
    /\ pc = "ranked"
    /\ arg.batchSize = 1
    /\ Len(arg.links) = 2
    /\ arg.links[1] # arg.links[2]
    /\ ~res.outcomes[1].ok
    /\ res.outcomes[2].ok
    /\ Len(res.outcomes[2].rankedLinks) = 2
    /\ res.outcomes[2].rankedLinks[1].index = 1
    /\ res.outcomes[2].rankedLinks[2].index = 0
    /\ Len(res.ranked) = 2
    /\ \E i \in 1..2 : LinkOf(res.ranked[i]) = arg.links[2]
                          /\ res.ranked[i].rationale = "from classifier"

\* C28: rankLinks returns at most one RankedLink per input link: answers
\* that repeat an index or name no link of the batch are dropped.
C28_AtMostOnePerLink ==
    pc = "ranked" =>
        /\ Len(res.ranked) <= Len(arg.links)
        /\ \A i \in 1..Len(res.ranked) :
              Count([j \in 1..Len(res.ranked) |-> LinkOf(res.ranked[j])], LinkOf(res.ranked[i]))
                  <= Count(arg.links, LinkOf(res.ranked[i]))

(***************************************************************************)
(* Specification of extractLinksFromUrl as a function of the URL and of    *)
(* the renderer's behaviour.                                               *)
(***************************************************************************)
ExtractUrls == {SeedRoot, LBudget.url, LHome.url, LExternal.url, SeedMalformed}

InitExtract ==
    /\ pc = "extract"
    /\ arg \in [url : ExtractUrls, env : RendererBehaviours, contextReady : BOOLEAN]
    /\ res = <<>>
    /\ seedUrl = <<>>
    /\ cfg = [maxDepth |-> 0]
    /\ seedDomain = <<>>
    /\ visited = {}
    /\ queue = <<>>
    /\ pages = <<>>
    /\ allRankedLinks = <<>>
    /\ errors = <<>>
    /\ fetched = <<>>
    /\ llmCalls = 0
    /\ browserInstance = arg.contextReady
    /\ browserContext = arg.contextReady
    /\ launches = 0
    /\ closes = 0
    /\ sleeps = <<>>
    /\ progress = <<>>
    /\ insertion = [at |-> <<>>, count |-> 0]

\* page.goto rejects for a string that is no URL
gotoOf(url, env) == IF CanParse(url) THEN env ELSE [env EXCEPT !.goto = "timeout"]

ExtractCall ==
    /\ pc = "extract"
    /\ LET kind == extractLinksFromUrl(browserContext, gotoOf(arg.url, arg.env))
       IN  res' = [kind |-> kind, url |-> IF kind = "page" THEN arg.url ELSE <<>>]
    /\ IF ~browserContext /\ arg.env.launch = "ok"
       THEN initBrowser
       ELSE UNCHANGED <<browserInstance, browserContext, launches>>
    /\ pc' = "extracted"
    /\ UNCHANGED <<arg, seedUrl, cfg, seedDomain, visited, queue, pages,
                   allRankedLinks, errors, fetched, llmCalls, closes, sleeps, progress,
                   insertion>>

NextExtract == ExtractCall

SpecExtract == InitExtract /\ [][NextExtract]_vars

\* C7: extractLinksFromUrl never throws; it returns null on a navigation
\* timeout, a missing or non-2xx response or any renderer-level error
\* (failing to obtain the context or to open a page included), and
\* otherwise a PageContent whose url is the requested URL.
C7_ExtractorNeverThrows ==
    pc = "extracted" =>
        LET rendererFails ==
                \/ ~arg.contextReady /\ arg.env.launch = "throws"
                \/ arg.env.newPage = "throws"
                \/ gotoOf(arg.url, arg.env).goto # "ok"
                \/ arg.env.extract = "throws"
        IN  /\ res.kind # "throw"
            /\ rendererFails => res.kind = "null"
            /\ ~rendererFails => res.kind = "page" /\ res.url = arg.url

(***************************************************************************)
(* Properties of the crawl scheduler.                                      *)
(***************************************************************************)
FairSpec == Spec /\ WF_vars(Next)

Finished == pc \in {"done", "thrown"}

FetchCount(url) == Cardinality({i \in 1..Len(fetched) : fetched[i].url = url})

\* C1: the extractor is invoked at most once per normalized URL and no
\* normalized URL appears twice in pages[].
C1_AtMostOnceFetch ==
    /\ \A i, j \in 1..Len(fetched) : fetched[i].url = fetched[j].url => i = j
    /\ \A i, j \in 1..Len(pages) : pages[i].url = pages[j].url => i = j
    /\ \A i \in 1..Len(fetched) : fetched[i].url \in visited

\* the seed page links to /budget and to /budget/ : both are enqueued, the
\* first is fetched (and fails), the second is dequeued and skipped
C1_Witness ==
    /\ pc = "done"
    /\ Len(pages) = 1
    /\ pages[1].links = <<LBudget, LBudgetSlash>>
    /\ Len(allRankedLinks) = 2
    /\ Len(fetched) = 2
    /\ queue = <<>>

\* C2: no frontier item is dequeued and no page is fetched at a depth
\* greater than maxDepth: the seed has depth 0 and a link is only enqueued,
\* one level deeper, from a page whose depth is below maxDepth.
C2_DepthBound ==
    /\ \A i \in 1..Len(fetched) : fetched[i].depth <= cfg.maxDepth
    /\ fetched # <<>> => fetched[1].depth = 0
    /\ \A k \in 1..Len(queue) :
          /\ queue[k].depth <= cfg.maxDepth
          /\ IF queue[k].parentUrl = Undefined THEN queue[k].depth = 0
             ELSE \E i \in 1..Len(fetched) :
                     /\ fetched[i].url = queue[k].parentUrl[1]
                     /\ fetched[i].depth < cfg.maxDepth
                     /\ queue[k].depth = fetched[i].depth + 1

\* a page fetched at depth maxDepth carries links and none of them is ranked
\* or enqueued
C2_Witness ==
    /\ pc = "done"
    /\ cfg.maxDepth = 1
    /\ Len(fetched) = 2
    /\ fetched[2].depth = 1
    /\ Len(pages) = 2
    /\ pages[2].links = <<LBudgetSlash, LAbout>>
    /\ Len(allRankedLinks) = 1
    /\ queue = <<>>

\* C3: pages.length <= maxPages at every point of the run and in the
\* result; once pages.length has reached maxPages or the frontier is empty
\* the loop dequeues nothing more and the run returns.
C3_PageBound ==
    /\ [](Len(pages) <= cfg.maxPages)
    /\ [][(pc = "loop" /\ (Len(pages) >= cfg.maxPages \/ queue = <<>>))
            => (pc' = "done" /\ queue' = queue /\ pages' = pages /\ fetched' = fetched)]_vars

\* the run returned because of the page bound, with a non-empty frontier
C3_Witness ==
    /\ pc = "done"
    /\ cfg.maxPages = 2
    /\ Len(pages) = 2
    /\ queue # <<>>

RootUrl == <<"https://a.gov", "/">>

\* the seed page links (once, followably) to /budget
SeedLinksToBudget ==
    /\ cfg.maxDepth >= 1
    /\ cfg.maxPages >= 2
    /\ Len(pages) >= 1
    /\ pages[1] = [url |-> RootUrl, links |-> <<LBudget>>]
    /\ Len(allRankedLinks) >= 1
    /\ allRankedLinks[1].url = LBudget.url
    /\ allRankedLinks[1].relevanceScore >= cfg.minScoreToFollow

\* the two pages link to each other, each link ranked once and followable
TwoCycle ==
    /\ SeedLinksToBudget
    /\ cfg.maxDepth >= 2
    /\ Len(pages) = 2
    /\ pages[2] = [url |-> LBudget.url, links |-> <<LHome>>]
    /\ Len(allRankedLinks) = 2
    /\ allRankedLinks[2].url = LHome.url
    /\ allRankedLinks[2].relevanceScore >= cfg.minScoreToFollow

\* C4: crawl terminates on every link graph, cycles included; when two pages
\* link to each other (both links followable) each is fetched exactly once
\* and the run ends with an empty frontier.
C4_TerminatesOnCycles ==
    /\ <>Finished
    /\ [](pc = "done" /\ SeedLinksToBudget =>
            FetchCount(RootUrl) = 1 /\ FetchCount(LBudget.url) = 1)
    /\ [](pc = "done" /\ TwoCycle => Len(fetched) = 2 /\ queue = <<>>)

\* a finished run over the two-cycle
C4_Witness == pc = "done" /\ TwoCycle /\ cfg.maxPages = 2

FailedFetches == SelectSeq(fetched, LAMBDA f : f.outcome # "page")

\* C6: every failed fetch adds exactly one {url, error} entry for its URL to
\* errors[] and leaves pages[] alone, the run goes on with the rest of the
\* frontier, and it never throws because of a page (only a seed that does
\* not parse makes it fail as a whole).
C6_FetchFailureRecorded ==
    /\ Len(errors) = Len(FailedFetches)
    /\ \A i \in 1..Len(errors) : errors[i].url = FailedFetches[i].url
    /\ Len(pages) = Len(fetched) - Len(FailedFetches)
    /\ pc = "thrown" => fetched = <<>>

\* C8: the browser session is acquired before the first page fetch and
\* released exactly once when the run ends, whether it returns or fails.
C8_BrowserReleasedOnce ==
    /\ fetched # <<>> => launches >= 1
    /\ closes <= 1
    /\ Finished => closes = 1 /\ ~browserInstance /\ ~browserContext

(***************************************************************************)
(* The document chunker (services/chunker.ts).  A word is a maximal run of *)
(* non-blank characters: t is the number of tokens the tokenizer gives it, *)
(* stop tells that it ends in . ! or ? and that the word after it begins   *)
(* with a capital letter, so that the blank between them is a sentence     *)
(* boundary.  A string is the list of its paragraphs (the blank-line       *)
(* separated pieces), a paragraph the list of its words; "" is <<>>.       *)
(***************************************************************************)
MAX_CHUNK_TOKENS == 1000

MIN_CHUNK_TOKENS == 100

OVERLAP_TOKENS == 50

Word(t, stop) == [t |-> t, stop |-> stop]

\* text.split(/\s+/)
RECURSIVE wordsOf(_)
wordsOf(text) == IF text = <<>> THEN <<>> ELSE Head(text) \o wordsOf(Tail(text))

RECURSIVE sumTokens(_)
sumTokens(words) == IF words = <<>> THEN 0 ELSE Head(words).t + sumTokens(Tail(words))

\* encode(text).length: the tokens of the words, and enc.brk tokens (0 or 1,
\* a property of the encoding and of the characters around the break) for
\* every blank line between two paragraphs
countTokens(text, enc) ==
    sumTokens(wordsOf(text)) + enc.brk * (IF Len(text) > 1 THEN Len(text) - 1 ELSE 0)

\* splitByParagraphs(text): each paragraph as a string of its own
splitByParagraphs(text) ==
    LET kept == SelectSeq(text, LAMBDA p : p # <<>>)
    IN  [i \in 1..Len(kept) |-> <<kept[i]>>]

\* words.slice(-n)
sliceLast(words, n) ==
    IF Len(words) <= n THEN words ELSE SubSeq(words, Len(words) - n + 1, Len(words))

\* a.concat(b) for a string a and a piece b joined by one blank
joinBlank(a, b) == IF a = <<>> THEN b ELSE <<a[1] \o b[1]>>

\* the loop of splitByTokenCount over the words, its tail included
RECURSIVE tokenCountLoop(_, _, _, _)
tokenCountLoop(words, chunks, currentChunk, currentTokens) ==
    IF words = <<>>
    THEN IF Len(currentChunk) > 0 THEN Append(chunks, <<currentChunk>>) ELSE chunks
    ELSE LET word == Head(words)
             wordTokens == word.t
         IN  IF currentTokens + wordTokens > MAX_CHUNK_TOKENS /\ Len(currentChunk) > 0
             THEN tokenCountLoop(Tail(words), Append(chunks, <<currentChunk>>),
                                 <<word>>, wordTokens)
             ELSE tokenCountLoop(Tail(words), chunks, Append(currentChunk, word),
                                 currentTokens + wordTokens)

\* splitByTokenCount(text)
splitByTokenCount(text) == tokenCountLoop(wordsOf(text), <<>>, <<>>, 0)

\* text.split(sentenceRegex): the paragraph cut after every word that ends
\* a sentence
RECURSIVE sentenceLoop(_, _, _)
sentenceLoop(words, done, current) ==
    IF words = <<>>
    THEN IF current = <<>> THEN done ELSE Append(done, <<current>>)
    ELSE IF Head(words).stop /\ Tail(words) # <<>>
         THEN sentenceLoop(Tail(words), Append(done, <<Append(current, Head(words))>>), <<>>)
         ELSE sentenceLoop(Tail(words), done, Append(current, Head(words)))

splitSentences(text) == sentenceLoop(wordsOf(text), <<>>, <<>>)

\* chunks with currentChunk pushed when it is not ""
pushIfAny(chunks, currentChunk) ==
    IF currentChunk # <<>> THEN Append(chunks, currentChunk) ELSE chunks

\* the loop of splitOversizedParagraph over the sentences, its tail included
RECURSIVE groupSentences(_, _, _, _, _)
groupSentences(sentences, chunks, currentChunk, currentTokens, enc) ==
    IF sentences = <<>> THEN pushIfAny(chunks, currentChunk)
    ELSE LET sentence == Head(sentences)
             sentenceTokens == countTokens(sentence, enc)
         IN  IF sentenceTokens > MAX_CHUNK_TOKENS
             THEN groupSentences(Tail(sentences),
                                 pushIfAny(chunks, currentChunk) \o splitByTokenCount(sentence),
                                 <<>>, 0, enc)
             ELSE IF currentTokens + sentenceTokens > MAX_CHUNK_TOKENS
             THEN groupSentences(Tail(sentences), pushIfAny(chunks, currentChunk),
                                 sentence, sentenceTokens, enc)
             ELSE groupSentences(Tail(sentences), chunks, joinBlank(currentChunk, sentence),
                                 currentTokens + sentenceTokens, enc)

\* splitOversizedParagraph(text)
splitOversizedParagraph(text, enc) ==
    IF countTokens(text, enc) <= MAX_CHUNK_TOKENS THEN <<text>>
    ELSE LET sentences == splitSentences(text)
         IN  IF Len(sentences) > 1
             THEN groupSentences(sentences, <<>>, <<>>, 0, enc)
             ELSE splitByTokenCount(text)

\* the first loop of splitLargeSection: oversized paragraphs are expanded
RECURSIVE expandParagraphs(_, _)
expandParagraphs(paragraphs, enc) ==
    IF paragraphs = <<>> THEN <<>>
    ELSE LET para == Head(paragraphs)
         IN  (IF countTokens(para, enc) > MAX_CHUNK_TOKENS
              THEN splitOversizedParagraph(para, enc)
              ELSE <<para>>)
                 \o expandParagraphs(Tail(paragraphs), enc)

\* `${title} (continued)`
continuedTitle(title) == Append(title, " (continued)")

ChunkResult(sectionTitle, content, tokenCount, chunkIndex) ==
    [sectionTitle |-> sectionTitle, content |-> content,
     tokenCount |-> tokenCount, chunkIndex |-> chunkIndex]

\* chunkNum === 0 ? title : `${title} (continued)`
chunkTitle(title, chunkNum) == IF chunkNum = 0 THEN title ELSE continuedTitle(title)

\* faulty variant: the next chunk starts with the paragraph alone
overlapSeedNone(currentChunk, para) == para

\* the seed of the chunk after a closed one: the last floor(OVERLAP_TOKENS / 2)
\* words of the closed chunk, a blank line, the paragraph
overlapSeed(currentChunk, para) ==
    <<sliceLast(wordsOf(currentChunk), OVERLAP_TOKENS \div 2)>> \o para

\* the second loop of splitLargeSection, the last chunk included
RECURSIVE packParagraphs(_, _, _, _, _, _, _, _)
packParagraphs(paras, title, startIndex, chunks, currentChunk, currentTokens, chunkNum, enc) ==
    IF paras = <<>>
    THEN IF currentChunk # <<>>
         THEN Append(chunks, ChunkResult(chunkTitle(title, chunkNum), currentChunk,
                                         countTokens(currentChunk, enc),
                                         startIndex + chunkNum))
         ELSE chunks
    ELSE LET para == Head(paras)
             paraTokens == countTokens(para, enc)
         IN  IF currentTokens + paraTokens > MAX_CHUNK_TOKENS /\ currentChunk # <<>>
             THEN packParagraphs(Tail(paras), title, startIndex,
                      Append(chunks, ChunkResult(chunkTitle(title, chunkNum), currentChunk,
                                                 currentTokens, startIndex + chunkNum)),
                      overlapSeed(currentChunk, para),
                      countTokens(overlapSeed(currentChunk, para), enc),
                      chunkNum + 1, enc)
             ELSE packParagraphs(Tail(paras), title, startIndex, chunks,
                      currentChunk \o para, currentTokens + paraTokens, chunkNum, enc)

\* faulty variant: the chunk numbers restart at 0 in every split section
splitLargeSectionRestart(title, content, startIndex, enc) ==
    packParagraphs(expandParagraphs(splitByParagraphs(content), enc),
                   title, 0, <<>>, <<>>, 0, 0, enc)

\* splitLargeSection(title, content, startIndex)
splitLargeSection(title, content, startIndex, enc) ==
    packParagraphs(expandParagraphs(splitByParagraphs(content), enc),
                   title, startIndex, <<>>, <<>>, 0, 0, enc)

Section(title, content) == [title |-> title, content |-> content]

\* the header line "## title" as a text of one paragraph: the marker and
\* the words of the title, one token each
headerLine(title) ==
    <<<<Word(1, FALSE)>> \o [i \in 1..Len(title) |-> Word(1, FALSE)]>>

\* markdown.slice(contentStart, endIndex).trim() for the i-th header: the
\* text after the header line; when no newline follows the header (it is
\* the last line of the document, markdown.eof) indexOf gives -1 and the
\* slice starts at the header itself
headerContent(markdown, i) ==
    IF i = Len(markdown.headers) /\ markdown.eof
    THEN headerLine(markdown.headers[i].title)
    ELSE markdown.headers[i].content

\* splitByHeaders(markdown).  A markdown document is the text before the
\* first header and the list of its ## / ### headers, each with the text
\* that follows it.
splitByHeaders(markdown) ==
    IF markdown.headers = <<>> THEN <<Section(<<"Document">>, markdown.intro)>>
    ELSE (IF markdown.intro # <<>>
          THEN <<Section(<<"Introduction">>, markdown.intro)>> ELSE <<>>)
            \o SelectSeq([i \in 1..Len(markdown.headers) |->
                             Section(markdown.headers[i].title, headerContent(markdown, i))],
                         LAMBDA h : h.content # <<>>)

\* faulty variant: every section becomes a unit of its own
mergeSmallSectionsNone(sections, merged, enc) == merged \o sections

\* mergeSmallSections(sections)
RECURSIVE mergeSmallSections(_, _, _)
mergeSmallSections(sections, merged, enc) ==
    IF sections = <<>> THEN merged
    ELSE LET section == Head(sections)
             tokens == countTokens(section.content, enc)
         IN  IF tokens < MIN_CHUNK_TOKENS /\ Len(merged) > 0
             THEN mergeSmallSections(Tail(sections),
                      [merged EXCEPT ![Len(merged)].content = @ \o section.content], enc)
             ELSE mergeSmallSections(Tail(sections), Append(merged, section), enc)

\* the loop of chunkDocument over the sections
RECURSIVE chunkLoop(_, _, _, _)
chunkLoop(sections, chunks, chunkIndex, enc) ==
    IF sections = <<>> THEN chunks
    ELSE LET section == Head(sections)
             tokens == countTokens(section.content, enc)
         IN  IF tokens > MAX_CHUNK_TOKENS
             THEN LET subChunks == splitLargeSection(section.title, section.content,
                                                     chunkIndex, enc)
                  IN  chunkLoop(Tail(sections), chunks \o subChunks,
                                chunkIndex + Len(subChunks), enc)
             ELSE chunkLoop(Tail(sections),
                            Append(chunks, ChunkResult(section.title, section.content,
                                                       tokens, chunkIndex)),
                            chunkIndex + 1, enc)

\* !markdown || markdown.trim().length === 0
isBlank(markdown) ==
    markdown.intro = <<>> /\ markdown.headers = <<>>

\* chunkDocument(markdown)
chunkDocument(markdown, enc) ==
    IF isBlank(markdown) THEN <<>>
    ELSE chunkLoop(mergeSmallSections(splitByHeaders(markdown), <<>>, enc), <<>>, 0, enc)

(***************************************************************************)
(* Specification of chunkDocument as a function of the document and of the *)
(* tokenizer.                                                              *)
(***************************************************************************)
MaxSections == 2

PSmall == <<Word(30, FALSE), Word(20, TRUE)>>

PHalf == <<Word(500, FALSE)>>

PMid == <<Word(300, FALSE), Word(300, TRUE)>>

PBig == <<Word(495, FALSE), Word(495, TRUE)>>

\* twenty-six short words
PWords == [i \in 1..26 |-> Word(2, FALSE)]

\* three sentences of 700, 700 and 200 tokens
PSentences ==
    <<Word(400, FALSE), Word(300, TRUE), Word(400, FALSE), Word(300, TRUE), Word(200, FALSE)>>

\* a sentence of 1200 tokens and one of 100
PLongSentence == <<Word(600, FALSE), Word(600, TRUE), Word(100, FALSE)>>

\* 1500 tokens without a sentence boundary
PRun == <<Word(600, FALSE), Word(600, FALSE), Word(300, FALSE)>>

\* one word of 1200 tokens (a long unbroken string)
PGiantWord == <<Word(1200, FALSE)>>

\* the text under a header
SectionContents ==
    { <<>>, <<PSmall>>, <<PMid>>, <<PMid, PMid>>, <<PHalf, PHalf>>,
      <<PBig, PWords, PBig>>, <<PWords, PBig, PSmall>>, <<PSentences>>,
      <<PLongSentence>>, <<PRun>>, <<PGiantWord>> }

Titles == <<"Alpha", "Beta", "Gamma", "Delta">>

\* the parts of a document: the text before the first header, the texts
\* under the headers, and eof: the document ends with a header line that
\* no newline follows (so nothing is under that header)
MarkdownParts ==
    {x \in {<<>>, <<PSmall>>}
             \X (UNION {[1..k -> SectionContents] : k \in 0..MaxSections})
             \X BOOLEAN :
        x[3] => x[2] # <<>> /\ Last(x[2]) = <<>>}

Markdowns ==
    {[intro |-> x[1],
      headers |-> [i \in 1..Len(x[2]) |-> Section(<<Titles[i]>>, x[2][i])],
      eof |-> x[3]] : x \in MarkdownParts}

Encodings == [brk : {0, 1}]

InitChunk ==
    /\ pc = "chunk"
    /\ arg \in [markdown : Markdowns, enc : Encodings]
    /\ res = <<>>
    /\ CrawlIdle

\* chunks = chunkDocument(markdown)
ChunkDocumentCall ==
    /\ pc = "chunk"
    /\ res' = chunkDocument(arg.markdown, arg.enc)
    /\ pc' = "chunked"
    /\ UNCHANGED <<arg, crawlVars>>

NextChunk == ChunkDocumentCall

SpecChunk == InitChunk /\ [][NextChunk]_vars

\* C11: the chunkIndex values of the returned list are 0..n-1 in list order,
\* counted across the whole document, also when sections are split.
C11_ChunkIndexDense ==
    pc = "chunked" => \A i \in 1..Len(res) : res[i].chunkIndex = i - 1

IsContinued(chunk) == Last(chunk.sectionTitle) = " (continued)"

\* a section split into several chunks is followed by the chunks of another
\* section
C11_Witness ==
    /\ pc = "chunked"
    /\ \E i \in 2..Len(res) :
          /\ IsContinued(res[i - 1])
          /\ \E j \in (i + 1)..Len(res) : IsContinued(res[j]) /\ ~IsContinued(res[j - 1])

\* a chunk made of one unit that cannot be split further: one paragraph
\* holding one sentence
IsAtomicUnit(content) == Len(content) = 1 /\ Len(splitSentences(content)) = 1

\* C12: every returned chunk, continuation chunks that start with an overlap
\* tail included, has tokenCount <= MAX_CHUNK_TOKENS unless it is made of a
\* single unit that cannot be split further.
C12_ChunkSizeBound ==
    pc = "chunked" =>
        \A i \in 1..Len(res) :
            res[i].tokenCount <= MAX_CHUNK_TOKENS \/ IsAtomicUnit(res[i].content)

\* the sections chunkDocument works on
SectionsOf(markdown, enc) == mergeSmallSections(splitByHeaders(markdown), <<>>, enc)

\* the positions in the result of the chunks of the section of that title
ChunksOfTitle(title) ==
    {i \in 1..Len(res) : res[i].sectionTitle \in {title, continuedTitle(title)}}

\* C20: every section whose content exceeds MAX_CHUNK_TOKENS yields at least
\* two chunks, the first titled with the section title and every later one
\* titled "<title> (continued)".
C20_OversizedSectionSplit ==
    pc = "chunked" /\ ~isBlank(arg.markdown) =>
        LET sections == SectionsOf(arg.markdown, arg.enc)
        IN  \A k \in 1..Len(sections) :
                countTokens(sections[k].content, arg.enc) > MAX_CHUNK_TOKENS =>
                    LET own == ChunksOfTitle(sections[k].title)
                    IN  /\ Cardinality(own) >= 2
                        /\ \A i \in own :
                              res[i].sectionTitle =
                                  IF \A j \in own : i <= j
                                  THEN sections[k].title
                                  ELSE continuedTitle(sections[k].title)

\* C19: when onProgress is supplied it is invoked once after each page has
\* been processed: one report per page of pages[], naming that page, with a
\* pagesProcessed count that includes it.
C19_ProgressAfterEachPage ==
    pc \in {"loop", "done"} /\ cfg.onProgress =>
        /\ Len(progress) = Len(pages)
        /\ \A i \in 1..Len(progress) :
              /\ progress[i].currentUrl = pages[i].url
              /\ progress[i].pagesProcessed = i

(***************************************************************************)
(* robots.txt (getRobotsInfo, isUrlAllowed).  The text of robots.txt is    *)
(* the list of its lines, a line a field name and a value; a rule path is  *)
(* a token sequence like the path of a URL.                                *)
(***************************************************************************)
\* faulty variant: the whole string instead of a prefix
startsWithWhole(s, prefix) == s = prefix

\* s.startsWith(prefix)
startsWith(s, prefix) ==
    Len(prefix) <= Len(s) /\ SubSeq(s, 1, Len(prefix)) = prefix

\* the loop of isUrlAllowed over the rules
RECURSIVE rulesLoop(_, _)
rulesLoop(path, disallowed) ==
    IF disallowed = <<>> THEN TRUE
    ELSE IF Head(disallowed) = <<"/">> THEN FALSE
    ELSE IF startsWith(path, Head(disallowed)) THEN FALSE
    ELSE rulesLoop(path, Tail(disallowed))

\* isUrlAllowed(url, disallowed)
isUrlAllowed(url, disallowed) ==
    IF ~CanParse(url) THEN FALSE
    ELSE rulesLoop(ParseURL(url).pathname, disallowed)

\* a line of robots.txt: the field name before the colon and the text after
\* it, as tokens (a path is its segments and slashes)
RobotsLine(field, value) == [field |-> field, value |-> value]

\* line.trim().toLowerCase(), on the field name
lowerField(field) ==
    CASE field = "User-agent" -> "user-agent"
      [] field = "Crawl-delay" -> "crawl-delay"
      [] field = "Disallow" -> "disallow"
      [] OTHER -> field

\* line.trim().toLowerCase(), on the text after the colon
lowerValue(value) == [i \in DOMAIN value |-> toLowerCase(value[i])]

\* parseInt(value): the leading integer of the text, Undefined stands for NaN
parseInt(value) ==
    CASE value = <<"0">> -> Some(0)
      [] value = <<"5">> -> Some(5)
      [] value = <<"10">> -> Some(10)
      [] value = <<"2.5">> -> Some(2)
      [] value = <<"59500">> -> Some(59500)
      [] value = <<"70000">> -> Some(70000)
      [] OTHER -> Undefined

RobotsInfo(crawlDelay, disallowed) == [crawlDelay |-> crawlDelay, disallowed |-> disallowed]

\* the loop of getRobotsInfo over the lines
RECURSIVE robotsLoop(_, _, _, _)
robotsLoop(lines, crawlDelay, disallowed, inUserAgentAll) ==
    IF lines = <<>> THEN RobotsInfo(crawlDelay, disallowed)
    ELSE LET line == Head(lines)
             trimmed == lowerField(line.field)
             text == lowerValue(line.value)
         IN  IF trimmed = "user-agent"
             THEN robotsLoop(Tail(lines), crawlDelay, disallowed, text = <<"*">>)
             ELSE IF inUserAgentAll /\ trimmed = "crawl-delay"
             THEN robotsLoop(Tail(lines),
                             IF parseInt(text) # Undefined
                             THEN Some(parseInt(text)[1] * 1000)
                             ELSE crawlDelay,
                             disallowed, inUserAgentAll)
             ELSE IF inUserAgentAll /\ trimmed = "disallow"
             THEN robotsLoop(Tail(lines), crawlDelay,
                             IF text # <<>> THEN Append(disallowed, text)
                             ELSE disallowed,
                             inUserAgentAll)
             ELSE robotsLoop(Tail(lines), crawlDelay, disallowed, inUserAgentAll)

\* faulty variant: the body of a response that is not OK is parsed too
getRobotsInfoAnyStatus(baseUrl, net) ==
    IF ~CanParse(baseUrl) \/ net.fetch = "throws" THEN RobotsInfo(Undefined, <<>>)
    ELSE robotsLoop(net.text, Undefined, <<>>, FALSE)

\* getRobotsInfo(baseUrl).  net tells how fetch(robotsUrl) ends ("throws":
\* network error or timeout; "notOk"; "ok") and the text of the response.
getRobotsInfo(baseUrl, net) ==
    IF ~CanParse(baseUrl) THEN RobotsInfo(Undefined, <<>>)
    ELSE IF net.fetch = "throws" THEN RobotsInfo(Undefined, <<>>)
    ELSE IF net.fetch = "notOk" THEN RobotsInfo(Undefined, <<>>)
    ELSE robotsLoop(net.text, Undefined, <<>>, FALSE)

(***************************************************************************)
(* Specification of isUrlAllowed as a function of its inputs.              *)
(***************************************************************************)
MaxRules == 2

RulePaths == {<<"/">>, <<"/", "docs">>, <<"/", "docs", "/">>, <<"/", "private">>}

AllowedUrls ==
    {<<"https://a.gov">> \o p : p \in Paths}
        \cup {<<"https://a.gov", "/", "docs", "?", "id=1">>, SeedMalformed}

InitAllowed ==
    /\ pc = "allow"
    /\ arg \in [url : AllowedUrls, disallowed : SeqsUpTo(RulePaths, MaxRules)]
    /\ res = <<>>
    /\ CrawlIdle

\* allowed = isUrlAllowed(url, disallowed)
IsUrlAllowedCall ==
    /\ pc = "allow"
    /\ res' = <<isUrlAllowed(arg.url, arg.disallowed)>>
    /\ pc' = "allowed"
    /\ UNCHANGED <<arg, crawlVars>>

NextAllowed == IsUrlAllowedCall

SpecAllowed == InitAllowed /\ [][NextAllowed]_vars

\* rule is the beginning of path
IsPrefix(rule, path) == \E k \in 0..Len(path) : SubSeq(path, 1, k) = rule

\* C15: isUrlAllowed returns false exactly when the URL cannot be parsed, or
\* the rule "/" is in the list, or some rule is a prefix of the URL's path;
\* it returns true for every parseable URL when the list is empty.
C15_IsUrlAllowed ==
    pc = "allowed" =>
        /\ res[1] = ~(\/ ~CanParse(arg.url)
                      \/ <<"/">> \in Range(arg.disallowed)
                      \/ \E i \in 1..Len(arg.disallowed) :
                            IsPrefix(arg.disallowed[i], ParseURL(arg.url).pathname))
        /\ CanParse(arg.url) /\ arg.disallowed = <<>> => res[1]

\* a parseable URL refused by a prefix rule other than "/", its path longer
\* than the rule
C15_Witness ==
    /\ pc = "allowed"
    /\ CanParse(arg.url)
    /\ <<"/">> \notin Range(arg.disallowed)
    /\ ~res[1]
    /\ \A i \in 1..Len(arg.disallowed) : arg.disallowed[i] # ParseURL(arg.url).pathname

(***************************************************************************)
(* scrape: robots.txt is read once, then the crawl runs.                   *)
(***************************************************************************)
UaAll == RobotsLine("User-agent", <<"*">>)

UaBot == RobotsLine("User-agent", <<"googlebot">>)

CrawlDelay(n) == RobotsLine("Crawl-delay", <<n>>)

Disallow(path) == RobotsLine("Disallow", path)

\* bodies of robots.txt: empty; a delay for every agent (whole, fractional,
\* zero, not a number); the whole site or one directory closed to every
\* agent; rules of another agent's block only; rules before any block
RobotsTexts ==
    { <<>>,
      <<UaAll, CrawlDelay("5")>>,
      <<UaAll, CrawlDelay("10"), Disallow(<<"/", "docs">>)>>,
      <<UaAll, CrawlDelay("2.5")>>,
      <<UaAll, CrawlDelay("0")>>,
      <<UaAll, CrawlDelay("soon"), Disallow(<<>>)>>,
      <<UaAll, Disallow(<<"/">>)>>,
      <<UaAll, Disallow(<<"/", "budget">>)>>,
      <<UaBot, CrawlDelay("10"), Disallow(<<"/">>)>>,
      <<UaBot, Disallow(<<"/">>), UaAll, CrawlDelay("5")>>,
      <<CrawlDelay("5"), Disallow(<<"/">>)>> }

RobotsResponses ==
    [fetch : {"ok"}, text : RobotsTexts]
        \cup [fetch : {"throws", "notOk"}, text : {<<UaAll, CrawlDelay("5"), Disallow(<<"/">>)>>}]

\* requestDelayMs values a caller configures
ConfiguredDelays == {0, 1000, 7000}

ScrapeConfigs ==
    [maxDepth : {1},
     maxPages : {MaxPagesBound},
     minScoreToFollow : {DefaultMinScoreToFollow},
     useLlmRanking : BOOLEAN,
     sameDomainOnly : BOOLEAN,
     batchSize : {DefaultBatchSize},
     requestDelayMs : ConfiguredDelays,
     onProgress : {FALSE}]

InitScrape ==
    /\ pc = "scrape"
    /\ seedUrl \in Seeds
    /\ cfg \in ScrapeConfigs
    /\ \E net \in RobotsResponses : arg = [net |-> net, requestDelayMs |-> cfg.requestDelayMs]
    /\ res = RobotsInfo(Undefined, <<>>)
    /\ seedDomain = <<>>
    /\ visited = {}
    /\ queue = <<>>
    /\ pages = <<>>
    /\ allRankedLinks = <<>>
    /\ errors = <<>>
    /\ fetched = <<>>
    /\ llmCalls = 0
    /\ browserInstance = FALSE
    /\ browserContext = FALSE
    /\ launches = 0
    /\ closes = 0
    /\ sleeps = <<>>
    /\ progress = <<>>
    /\ insertion = [at |-> <<>>, count |-> 0]

\* cfg.requestDelayMs after the robots check of scrape
requestDelayAfterRobots(requestDelayMs, crawlDelay) ==
    IF crawlDelay # Undefined /\ crawlDelay[1] # 0
    THEN mathMax(IF requestDelayMs = 0 THEN 1000 ELSE requestDelayMs, crawlDelay[1])
    ELSE requestDelayMs

\* scrape up to the call of crawl: res holds robotsInfo
ScrapeRobots ==
    /\ pc = "scrape"
    /\ res' = getRobotsInfo(seedUrl, arg.net)
    /\ cfg' = [cfg EXCEPT !.requestDelayMs = requestDelayAfterRobots(@, res'.crawlDelay)]
    /\ pc' = "start"
    /\ UNCHANGED <<seedUrl, seedDomain, visited, queue, pages, allRankedLinks, errors,
                   fetched, llmCalls, browserInstance, browserContext, launches,
                   closes, sleeps, progress, insertion, arg>>

NextScrape ==
    \/ ScrapeRobots
    \/ Next

SpecScrape == InitScrape /\ [][NextScrape]_vars

\* the Crawl-delay values of text that stand under "User-agent: *": the
\* nearest User-agent line above them names "*"
StarCrawlDelays(text) ==
    {text[i].value[1] :
        i \in {j \in 1..Len(text) :
                 /\ text[j].field = "Crawl-delay"
                 /\ \E u \in 1..(j - 1) :
                       /\ text[u] = UaAll
                       /\ \A v \in (u + 1)..(j - 1) : text[v].field # "User-agent"}}

\* N * 1000 for the numbers N the bodies carry
IsNumber(n) == n \in {"0", "5", "10", "2.5"}

SecondsToMs(n) ==
    CASE n = "0" -> 0
      [] n = "5" -> 5000
      [] n = "10" -> 10000
      [] n = "2.5" -> 2500

\* C13: when robots.txt carries "Crawl-delay: N" under "User-agent: *", the
\* delay of the run, and so every pause between two requests, is
\* max(configured requestDelayMs, N * 1000).
C13_CrawlDelayFloor ==
    (pc # "scrape" /\ CanParse(seedUrl) /\ arg.net.fetch = "ok") =>
        \A n \in StarCrawlDelays(arg.net.text) :
            IsNumber(n) =>
                /\ cfg.requestDelayMs = mathMax(arg.requestDelayMs, SecondsToMs(n))
                /\ \A i \in 1..Len(sleeps) :
                      sleeps[i] = mathMax(arg.requestDelayMs, SecondsToMs(n))

\* C14: no URL that isUrlAllowed refuses under the Disallow rules of the
\* "User-agent: *" block is passed to the extractor; with "Disallow: /" no
\* page is fetched at all.
C14_DisallowedNeverFetched ==
    pc # "scrape" =>
        /\ \A i \in 1..Len(fetched) : isUrlAllowed(fetched[i].url, res.disallowed)
        /\ <<"/">> \in Range(res.disallowed) => fetched = <<>>

\* C16: when robots.txt cannot be fetched or the response is not OK,
\* getRobotsInfo returns no crawlDelay and no rule, the delay of the run is
\* the configured one and the crawl starts.
C16_RobotsFailOpen ==
    (pc # "scrape" /\ arg.net.fetch \in {"throws", "notOk"}) =>
        /\ res = RobotsInfo(Undefined, <<>>)
        /\ cfg.requestDelayMs = arg.requestDelayMs
        /\ \A i \in 1..Len(sleeps) : sleeps[i] = arg.requestDelayMs

\* a run whose robots.txt could not be read has paused between two requests
C16_Witness ==
    /\ arg.net.fetch \in {"throws", "notOk"}
    /\ pc = "done"
    /\ Len(pages) >= 2
    /\ sleeps # <<>>

(***************************************************************************)
(* Specification of filterByScore and groupByCategory as functions of      *)
(* their input; the caller's list is arg.links.                            *)
(***************************************************************************)
MaxPostLinks == 3

PostPool ==
    {RankedLink(LBudget, sc, c, "from classifier") :
        sc \in {30, 50, 90}, c \in {"budget", "other"}}
        \cup {RankedLink(LAbout, 50, "contact", "from classifier")}

InitPost ==
    /\ pc = "post"
    /\ arg \in [links : SeqsUpTo(PostPool, MaxPostLinks), minScore : {30, 50, 100}]
    /\ res = <<>>
    /\ CrawlIdle

\* out = filterByScore(links, minScore): the caller's list is not written
FilterByScoreCall ==
    /\ pc = "post"
    /\ res' = [fn |-> "filterByScore", out |-> filterByScore(arg.links, arg.minScore)]
    /\ pc' = "postDone"
    /\ UNCHANGED <<arg, crawlVars>>

\* out = groupByCategory(links): the caller's list is not written
GroupByCategoryCall ==
    /\ pc = "post"
    /\ res' = [fn |-> "groupByCategory", out |-> groupByCategory(arg.links)]
    /\ pc' = "postDone"
    /\ UNCHANGED <<arg, crawlVars>>

NextPost ==
    \/ FilterByScoreCall
    \/ GroupByCategoryCall

SpecPost == InitPost /\ [][NextPost]_vars

\* out holds exactly the elements of links at the positions idx, in the
\* order of links
IsSelection(out, links, idx) ==
    /\ Len(out) = Cardinality(idx)
    /\ \A i \in idx : out[Cardinality({j \in idx : j <= i})] = links[i]

\* C18: filterByScore returns, in input order, exactly the links with
\* relevanceScore >= minScore; groupByCategory puts every link into exactly
\* the group of its category, in input order; neither writes its input.
C18_PostProcessingPure ==
    /\ [](pc = "postDone" =>
            /\ res.fn = "filterByScore" =>
                  IsSelection(res.out, arg.links,
                              {i \in 1..Len(arg.links) :
                                  arg.links[i].relevanceScore >= arg.minScore})
            /\ res.fn = "groupByCategory" =>
                  /\ DOMAIN res.out = LinkCategories
                  /\ \A c \in LinkCategories :
                        IsSelection(res.out[c], arg.links,
                                    {i \in 1..Len(arg.links) : arg.links[i].category = c}))
    /\ [][arg' = arg]_vars

\* filterByScore kept a link scored exactly minScore and the link behind a
\* dropped one
C18_Witness ==
    /\ pc = "postDone"
    /\ res.fn = "filterByScore"
    /\ Len(arg.links) = 3
    /\ arg.links[1].relevanceScore = arg.minScore
    /\ arg.links[2].relevanceScore < arg.minScore
    /\ arg.links[3].relevanceScore > arg.minScore
    /\ res.out = <<arg.links[1], arg.links[3]>>

(***************************************************************************)
(* Results of a crawl run and the order of its work.                       *)
(***************************************************************************)
\* C21: when the seed is fetched successfully and has no outbound link,
\* then for every maxDepth >= 0 and maxPages >= 1 the result has exactly one
\* page, no ranked link and no error, and the classifier is never called.
C21_SeedWithoutLinks ==
    (/\ pc = "done"
     /\ cfg.maxPages >= 1
     /\ fetched # <<>>
     /\ fetched[1].outcome = "page"
     /\ \A i \in 1..Len(pages) : pages[i].url = fetched[1].url => pages[i].links = <<>>) =>
        /\ Len(pages) = 1
        /\ pages[1].url = normalizeUrl(seedUrl)
        /\ allRankedLinks = <<>>
        /\ errors = <<>>
        /\ llmCalls = 0

\* Scenario A: the seed page has no link and maxDepth is 2
C21_Witness ==
    /\ pc = "done"
    /\ cfg.maxDepth = 2
    /\ cfg.maxPages = 2
    /\ cfg.useLlmRanking
    /\ Len(fetched) = 1
    /\ fetched[1].outcome = "page"
    /\ pages = <<[url |-> normalizeUrl(seedUrl), links |-> <<>>]>>

(***************************************************************************)
(* Crawls fenced to the seed's domain, from a bare, a www and a subdomain  *)
(* seed.                                                                   *)
(***************************************************************************)
SeedWww == <<"https://www.a.gov">>

SeedSub == <<"https://sub.a.gov">>

InitFence ==
    /\ pc = "start"
    /\ seedUrl \in Seeds \cup {SeedWww, SeedSub}
    /\ cfg \in {c \in Configs : c.sameDomainOnly}
    /\ seedDomain = <<>>
    /\ visited = {}
    /\ queue = <<>>
    /\ pages = <<>>
    /\ allRankedLinks = <<>>
    /\ errors = <<>>
    /\ fetched = <<>>
    /\ llmCalls = 0
    /\ browserInstance = FALSE
    /\ browserContext = FALSE
    /\ launches = 0
    /\ closes = 0
    /\ sleeps = <<>>
    /\ progress = <<>>
    /\ insertion = [at |-> <<>>, count |-> 0]
    /\ arg = <<>>
    /\ res = <<>>

SpecFence == InitFence /\ [][Next]_vars

\* the hostname without a leading "www" label
Bare(host) == IF Len(host) > 1 /\ host[1] = "www" THEN Tail(host) ELSE host

\* sub is host or a name below it
IsAtOrBelow(sub, host) ==
    /\ Len(sub) >= Len(host)
    /\ SubSeq(sub, Len(sub) - Len(host) + 1, Len(sub)) = host

FetchedHost(i) == hostnameOf(fetched[i].url[1])

\* C23 as stated: with sameDomainOnly every URL passed to the extractor has
\* the seed's hostname or a subdomain of it, a leading "www." counting as
\* the bare domain.
C23_SeedDomainOrBelow ==
    (cfg.sameDomainOnly /\ seedDomain # <<>>) =>
        \A i \in 1..Len(fetched) : IsAtOrBelow(Bare(FetchedHost(i)), Bare(seedDomain))

\* C23 as amended: with sameDomainOnly every URL passed to the extractor has
\* a hostname that, a leading "www." left aside, is the seed's hostname, a
\* subdomain of it or a parent domain of it.
C23_SeedDomainAboveOrBelow ==
    (cfg.sameDomainOnly /\ seedDomain # <<>>) =>
        \A i \in 1..Len(fetched) :
            \/ IsAtOrBelow(Bare(FetchedHost(i)), Bare(seedDomain))
            \/ IsAtOrBelow(Bare(seedDomain), Bare(FetchedHost(i)))

\* a run from the bare seed fetched a page of the subdomain and dropped the
\* queued link to another site
C23_Witness ==
    /\ pc = "done"
    /\ seedUrl = SeedRoot
    /\ \E i \in 1..Len(fetched) : FetchedHost(i) = <<"sub", "a", "gov">>
    /\ \E i \in 1..Len(allRankedLinks) :
          /\ hostnameOf(allRankedLinks[i].url[1]) = <<"b", "com">>
          /\ allRankedLinks[i].relevanceScore >= cfg.minScoreToFollow

\* C24: between two consecutive calls of the extractor the scheduler sleeps
\* requestDelayMs, whatever the earlier fetch returned: when a call is made,
\* every earlier call of the run has been followed by one sleep.
C24_SleepBetweenFetches ==
    [][fetched' # fetched =>
          /\ Len(sleeps) >= Len(fetched)
          /\ \A i \in 1..Len(sleeps) : sleeps[i] = cfg.requestDelayMs]_vars

\* the ranked links the step adds to allRankedLinks and the items it pushes
\* behind the items that were left in the queue
RankedByStep ==
    SubSeq(allRankedLinks', Len(allRankedLinks) + 1, Len(allRankedLinks'))

PushedByStep == SubSeq(queue', Len(queue), Len(queue'))

\* C25: a link of a page fetched at depth d is enqueued if and only if
\* d < maxDepth, it survived pre-filtering and ranking with a relevanceScore
\* of at least minScoreToFollow, and its normalized URL is not visited then;
\* it is enqueued with depth d + 1, its score and the page as parentUrl.
C25_EnqueueRule ==
    [][Len(pages') = Len(pages) + 1 =>
          LET page == Last(pages')
              d == Last(fetched').depth
              ranked == RankedByStep
              items == [i \in 1..Len(ranked) |->
                           QueueItem(ranked[i].url, d + 1, Some(page.url),
                                     Some(ranked[i].relevanceScore))]
          IN  /\ \A i \in 1..Len(ranked) :
                    LinkOf(ranked[i]) \in Range(preFilterLinks(page.links, page.url))
              /\ d >= cfg.maxDepth => ranked = <<>> /\ PushedByStep = <<>>
              /\ IsSelection(PushedByStep, items,
                             {i \in 1..Len(ranked) :
                                 /\ ranked[i].relevanceScore >= cfg.minScoreToFollow
                                 /\ normalizeUrl(ranked[i].url) \notin visited'})]_vars

\* after the seed page: of its two ranked links the one scored below
\* minScoreToFollow was left out and the other was enqueued
C25_Witness ==
    /\ pc = "loop"
    /\ Len(pages) = 1
    /\ Len(allRankedLinks) = 2
    /\ \E i \in 1..2 : allRankedLinks[i].relevanceScore < cfg.minScoreToFollow
    /\ Len(queue) = 1
    /\ queue[1].depth = 1
    /\ queue[1].parentUrl = Some(pages[1].url)
    /\ queue[1].score = Some(90)

\* the links of a page that pass the pre-filter and match a high-value
\* pattern
HeuristicSurvivors(page) ==
    {l \in Range(page.links) :
        preFilterKeeps(l, page.url) /\ scoreLoop(textToCheck(l), 1, 0) > 0}

\* C26: with useLlmRanking the classifier is called only for a page that has
\* heuristic survivors and is asked about those links only; without
\* useLlmRanking it is never called.
C26_ClassifierAfterHeuristic ==
    /\ [](~cfg.useLlmRanking => llmCalls = 0)
    /\ [][Len(pages') = Len(pages) + 1 =>
             /\ llmCalls' # llmCalls =>
                   /\ cfg.useLlmRanking
                   /\ HeuristicSurvivors(Last(pages')) # {}
                   /\ Last(fetched').depth < cfg.maxDepth
             /\ cfg.useLlmRanking =>
                   \A i \in 1..Len(RankedByStep) :
                       LinkOf(RankedByStep[i]) \in HeuristicSurvivors(Last(pages'))]_vars
    /\ [][Len(pages') = Len(pages) => llmCalls' = llmCalls]_vars

\* a run with the classifier on: it was asked once, about the one heuristic
\* survivor of the seed's two pre-filtered links, and not for the second
\* page, whose links matched no pattern
C26_Witness ==
    /\ pc = "done"
    /\ cfg.useLlmRanking
    /\ cfg.maxDepth = 2
    /\ Len(pages) = 2
    /\ Len(preFilterLinks(pages[1].links, pages[1].url)) = 2
    /\ Len(allRankedLinks) = 1
    /\ pages[2].links # <<>>
    /\ preFilterLinks(pages[2].links, pages[2].url) # <<>>
    /\ llmCalls = 1

(***************************************************************************)
(* Crawls whose frontier holds links of different scores: the caller sets  *)
(* minScoreToFollow to 0.3 and lets three pages be fetched.                *)
(***************************************************************************)
FrontierConfigs ==
    [maxDepth : {2},
     maxPages : {3},
     minScoreToFollow : {30},
     useLlmRanking : BOOLEAN,
     sameDomainOnly : {TRUE},
     batchSize : {DefaultBatchSize},
     requestDelayMs : {DefaultRequestDelayMs},
     onProgress : {FALSE}]

InitFrontier ==
    /\ pc = "start"
    /\ seedUrl \in Seeds
    /\ cfg \in FrontierConfigs
    /\ seedDomain = <<>>
    /\ visited = {}
    /\ queue = <<>>
    /\ pages = <<>>
    /\ allRankedLinks = <<>>
    /\ errors = <<>>
    /\ fetched = <<>>
    /\ llmCalls = 0
    /\ browserInstance = FALSE
    /\ browserContext = FALSE
    /\ launches = 0
    /\ closes = 0
    /\ sleeps = <<>>
    /\ progress = <<>>
    /\ insertion = [at |-> <<>>, count |-> 0]
    /\ arg = <<>>
    /\ res = <<>>

SpecFrontier == InitFrontier /\ [][Next]_vars

\* the place in queue of the item the step took: the one whose rank is not
\* among those of the items left
TakenByStep ==
    CHOOSE i \in 1..Len(queue) :
        insertion.at[i] \notin {insertion'.at[j] : j \in 1..(Len(queue) - 1)}

\* C22: the item taken at a dequeue has the maximum score of the frontier (a
\* missing score counts as 0) and, among the items of that score, is the one
\* inserted earliest; pages lists the pages in the order of their successful
\* fetches.
C22_BestFirstDequeue ==
    /\ [][(pc = "loop" /\ queue' # queue) =>
             LET t == TakenByStep
             IN  /\ \A j \in 1..Len(queue) :
                       \/ scoreOrZero(queue[t]) > scoreOrZero(queue[j])
                       \/ /\ scoreOrZero(queue[t]) = scoreOrZero(queue[j])
                          /\ insertion.at[t] <= insertion.at[j]
                 /\ fetched' # fetched =>
                       /\ Last(fetched').url = normalizeUrl(queue[t].url)
                       /\ Last(fetched').depth = queue[t].depth]_vars
    /\ [](LET ok == SelectSeq(fetched, LAMBDA f : f.outcome = "page")
          IN  /\ Len(pages) = Len(ok)
              /\ \A i \in 1..Len(pages) : pages[i].url = ok[i].url)

\* the third fetch took a link scored 0.9 that was pushed after a link
\* scored 0.3 still waiting in the frontier
C22_Witness ==
    /\ Len(fetched) = 3
    /\ \E i \in 1..Len(queue) :
          /\ scoreOrZero(queue[i]) = 30
          /\ queue[i].parentUrl = Some(fetched[1].url)
    /\ \E i \in 1..Len(allRankedLinks) :
          /\ normalizeUrl(allRankedLinks[i].url) = fetched[3].url
          /\ allRankedLinks[i].relevanceScore = 90
    /\ \A i \in 1..Len(pages[1].links) :
          normalizeUrl(pages[1].links[i].url) # fetched[3].url

(***************************************************************************)
(* rankLinks under responses that conform to RANKING_SCHEMA and nothing    *)
(* more: relevanceScore is any number, category a value of the enum.       *)
(***************************************************************************)
\* relevance scores a conforming response may carry: -0.1, 0.5, 1.5
SchemaScores == {-10, 50, 150}

SchemaCategories == {"budget", "other"}

\* a failure, or one ranking per link of the batch
SchemaOutcomes(n) ==
    {Failure}
        \cup {Response([i \in 1..n |-> Ranking(i - 1, a[i][1], a[i][2])]) :
                 a \in [1..n -> SchemaScores \X SchemaCategories]}

RECURSIVE SchemaOutcomeSeqs(_, _)
SchemaOutcomeSeqs(n, batchSize) ==
    IF n <= 0 THEN {<<>>}
    ELSE {<<o>> \o rest :
            o \in SchemaOutcomes(IF n < batchSize THEN n ELSE batchSize),
            rest \in SchemaOutcomeSeqs(n - batchSize, batchSize)}

RankLinksSchemaCall ==
    /\ pc = "rank"
    /\ \E outcomes \in SchemaOutcomeSeqs(Len(arg.links), arg.batchSize) :
          /\ res' = [outcomes |-> outcomes,
                     ranked |-> rankLinks(arg.links, arg.batchSize, outcomes)]
          /\ llmCalls' = llmCalls + Len(outcomes)
    /\ pc' = "ranked"
    /\ UNCHANGED <<arg, seedUrl, cfg, seedDomain, visited, queue, pages,
                   allRankedLinks, errors, fetched, browserInstance,
                   browserContext, launches, closes, sleeps, progress, insertion>>

NextRankSchema == RankLinksSchemaCall

SpecRankSchema == InitRank /\ [][NextRankSchema]_vars

\* C29: every RankedLink rankLinks produces has a relevanceScore within
\* [0, 1] and a category of the closed set, whatever the classifier returns.
C29_ScoreAndCategoryInRange ==
    pc = "ranked" =>
        \A i \in 1..Len(res.ranked) :
            /\ res.ranked[i].relevanceScore \in 0..100
            /\ res.ranked[i].category \in LinkCategories

(***************************************************************************)
(* rankLinks step by step: one action per iteration of its batch loop.     *)
(* res.i is the loop variable, res.batches the batches handed to the       *)
(* classifier so far, res.rankedLinks the local array.                     *)
(***************************************************************************)
\* batchSize values a caller may configure
ConfiguredBatchSizes == {0} \cup BatchSizes

\* answers to a batch: a failure, or every link of it ranked 0.9
BatchOutcomes(batch) ==
    {Failure, Response([i \in 1..Len(batch) |-> Ranking(i - 1, 90, "budget")])}

InitBatch ==
    /\ pc = "rankLinks"
    /\ arg \in [links : SeqsUpTo(RankPool, MaxRankLinks), batchSize : ConfiguredBatchSizes]
    /\ res = [i |-> 0, batches |-> <<>>, rankedLinks |-> <<>>]
    /\ CrawlIdle

\* if (links.length === 0) return []
RankLinksEmpty ==
    /\ pc = "rankLinks"
    /\ Len(arg.links) = 0
    /\ pc' = "ranked"
    /\ UNCHANGED <<arg, res, crawlVars>>

RankLinksEnterLoop ==
    /\ pc = "rankLinks"
    /\ Len(arg.links) # 0
    /\ pc' = "batchLoop"
    /\ UNCHANGED <<arg, res, crawlVars>>

\* i += cfg.batchSize
nextBatchStart(i, batchSize) == i + batchSize

\* one iteration: slice, rankBatch, push.  A run needs at most links.length
\* calls when every batch holds a link; the batches and results of calls
\* beyond links.length + 1 are no longer recorded and the count of calls
\* then alternates between links.length + 2 and links.length + 1.
BatchIteration ==
    /\ pc = "batchLoop"
    /\ res.i < Len(arg.links)
    /\ \E batch \in {slice(arg.links, res.i, res.i + arg.batchSize)} :
       \E outcome \in BatchOutcomes(batch) :
          IF llmCalls <= Len(arg.links)
          THEN /\ res' = [i |-> nextBatchStart(res.i, arg.batchSize),
                          batches |-> Append(res.batches, batch),
                          rankedLinks |-> res.rankedLinks \o rankBatch(batch, outcome)]
               /\ llmCalls' = llmCalls + 1
          ELSE /\ res' = [res EXCEPT !.i = nextBatchStart(res.i, arg.batchSize)]
               /\ llmCalls' = IF llmCalls = Len(arg.links) + 1
                               THEN llmCalls + 1 ELSE llmCalls - 1
    /\ UNCHANGED <<pc, arg, seedUrl, cfg, seedDomain, visited, queue, pages,
                   allRankedLinks, errors, fetched, browserInstance,
                   browserContext, launches, closes, sleeps, progress, insertion>>

\* the loop condition fails: sort and return
BatchLoopExit ==
    /\ pc = "batchLoop"
    /\ res.i >= Len(arg.links)
    /\ res' = [res EXCEPT !.rankedLinks =
                  sortDescBy(@, [k \in 1..Len(@) |-> @[k].relevanceScore])]
    /\ pc' = "ranked"
    /\ UNCHANGED <<arg, crawlVars>>

NextBatch ==
    \/ RankLinksEmpty
    \/ RankLinksEnterLoop
    \/ BatchIteration
    \/ BatchLoopExit

SpecBatch == InitBatch /\ [][NextBatch]_vars

\* rankLinks is one sequential async function: a step that can be taken is
\* taken
FairSpecBatch == SpecBatch /\ WF_vars(NextBatch)

RECURSIVE Flatten(_)
Flatten(ss) == IF ss = <<>> THEN <<>> ELSE Head(ss) \o Flatten(Tail(ss))

\* C30: rankLinks cuts its input into consecutive batches of at most
\* batchSize links and issues one classifier call per batch, in input order:
\* ceil(n / batchSize) calls for n links, none for an empty input; it
\* terminates for every input and every configured batchSize.
C30_BatchesAndTermination ==
    /\ [](pc = "ranked" =>
            /\ Flatten(res.batches) = arg.links
            /\ \A k \in 1..Len(res.batches) : Len(res.batches[k]) <= arg.batchSize
            /\ llmCalls = Len(res.batches)
            /\ Len(arg.links) = 0 => llmCalls = 0
            /\ Len(arg.links) > 0 =>
                  /\ (llmCalls - 1) * arg.batchSize < Len(arg.links)
                  /\ Len(arg.links) <= llmCalls * arg.batchSize)
    /\ <>(pc = "ranked")

(***************************************************************************)
(* Specification of deduplicateLinks (the extractor's last step) as a      *)
(* function of its input.  Here a context is the sequence of its           *)
(* characters, so that Len is the length of the string.  The Map is the    *)
(* sequence of its values in key insertion order: setting an existing key  *)
(* replaces the value in place, setting a new key appends.                 *)
(***************************************************************************)
MaxDedupLinks == 3

DedupUrls == {<<"https://a.gov", "/", "budget">>, <<"https://a.gov", "/", "about">>}

DedupContexts == {<<>>, <<"a">>, <<"a", "b">>}

DedupPool ==
    {ExtractedLink(u, t, c) : u \in DedupUrls, t \in {<<"Budget">>, <<"More">>},
                              c \in DedupContexts}

\* seen.get(url): the position of the key, 0 when absent
seenGet(seen, url) ==
    IF \E i \in 1..Len(seen) : seen[i].url = url
    THEN CHOOSE i \in 1..Len(seen) : seen[i].url = url
    ELSE 0

\* seen.set(link.url, link)
seenSet(seen, link) ==
    IF seenGet(seen, link.url) = 0 THEN Append(seen, link)
    ELSE [seen EXCEPT ![seenGet(seen, link.url)] = link]

\* faulty variant: the first instance of a URL is always kept
RECURSIVE deduplicateLoopKeepFirst(_, _)
deduplicateLoopKeepFirst(links, seen) ==
    IF links = <<>> THEN seen
    ELSE deduplicateLoopKeepFirst(Tail(links),
                                  IF seenGet(seen, Head(links).url) = 0
                                  THEN seenSet(seen, Head(links)) ELSE seen)

\* the for loop of deduplicateLinks
RECURSIVE deduplicateLoop(_, _)
deduplicateLoop(links, seen) ==
    IF links = <<>> THEN seen
    ELSE LET link == Head(links)
             existing == seenGet(seen, link.url)
         IN  deduplicateLoop(Tail(links),
                             IF existing = 0
                                \/ Len(link.context) > Len(seen[existing].context)
                             THEN seenSet(seen, link) ELSE seen)

deduplicateLinksKeepFirst(links) == deduplicateLoopKeepFirst(links, <<>>)

\* deduplicateLinks(links)
deduplicateLinks(links) == deduplicateLoop(links, <<>>)

InitDedup ==
    /\ pc = "dedup"
    /\ arg \in [links : SeqsUpTo(DedupPool, MaxDedupLinks)]
    /\ res = <<>>
    /\ CrawlIdle

DeduplicateLinksCall ==
    /\ pc = "dedup"
    /\ res' = deduplicateLinks(arg.links)
    /\ pc' = "dedupDone"
    /\ UNCHANGED <<arg, crawlVars>>

NextDedup == DeduplicateLinksCall

SpecDedup == InitDedup /\ [][NextDedup]_vars

\* position in links of the earliest instance of url u whose context is
\* the longest among the instances of u
BestInstance(links, u) ==
    CHOOSE i \in 1..Len(links) :
        /\ links[i].url = u
        /\ \A j \in 1..Len(links) :
              links[j].url = u =>
                  \/ Len(links[j].context) < Len(links[i].context)
                  \/ Len(links[j].context) = Len(links[i].context) /\ i <= j

\* position in links of the first instance of url u
FirstInstance(links, u) ==
    CHOOSE i \in 1..Len(links) :
        links[i].url = u /\ \A j \in 1..(i - 1) : links[j].url # u

\* C31: deduplicateLinks returns one link per distinct URL of its input, in
\* order of first occurrence, and for each URL the earliest of the
\* instances with the longest context.
C31_DeduplicateLinks ==
    pc = "dedupDone" =>
        LET links == arg.links
            urls == {links[i].url : i \in 1..Len(links)}
        IN  /\ Len(res) = Cardinality(urls)
            /\ {res[k].url : k \in 1..Len(res)} = urls
            /\ \A k, m \in 1..Len(res) :
                  k < m => FirstInstance(links, res[k].url)
                               < FirstInstance(links, res[m].url)
            /\ \A k \in 1..Len(res) : res[k] = links[BestInstance(links, res[k].url)]

\* a later instance with a longer context replaced the first one in place,
\* and a still later instance of equal length did not
C31_Witness ==
    /\ pc = "dedupDone"
    /\ Len(arg.links) = 3
    /\ arg.links[1].url = arg.links[2].url
    /\ arg.links[2].url = arg.links[3].url
    /\ Len(arg.links[1].context) < Len(arg.links[2].context)
    /\ Len(arg.links[2].context) = Len(arg.links[3].context)
    /\ arg.links[2] # arg.links[3]
    /\ res = <<arg.links[2]>>

(***************************************************************************)
(* Specification of mergeSmallSections as a function of the sections that  *)
(* splitByHeaders hands it (none of them empty) and of the tokenizer.      *)
(***************************************************************************)
MaxMergeSections == 3

\* section bodies of 50, 52, 100 (101 when the blank line is a token), 600
\* and 1200 tokens
MergeContents == {<<PSmall>>, <<PWords>>, <<PSmall, PSmall>>, <<PMid>>, <<PMid, PMid>>}

MergeInputs ==
    {[i \in 1..Len(cs) |-> Section(<<Titles[i]>>, cs[i])] :
        cs \in SeqsUpTo(MergeContents, MaxMergeSections)}

InitMerge ==
    /\ pc = "merge"
    /\ arg \in [sections : MergeInputs, enc : Encodings]
    /\ res = <<>>
    /\ CrawlIdle

\* mergedSections = mergeSmallSections(sections)
MergeSmallSectionsCall ==
    /\ pc = "merge"
    /\ res' = mergeSmallSections(arg.sections, <<>>, arg.enc)
    /\ pc' = "merged"
    /\ UNCHANGED <<arg, crawlVars>>

NextMerge == MergeSmallSectionsCall

SpecMerge == InitMerge /\ [][NextMerge]_vars

\* the positions of the sections that open a unit: the first one and every
\* one of at least MIN_CHUNK_TOKENS tokens
UnitStarts(sections, enc) ==
    {k \in 1..Len(sections) :
        k = 1 \/ countTokens(sections[k].content, enc) >= MIN_CHUNK_TOKENS}

\* the contents of the sections k..m, one after the other
RECURSIVE ContentsFrom(_, _, _)
ContentsFrom(sections, k, m) ==
    IF k > m THEN <<>> ELSE sections[k].content \o ContentsFrom(sections, k + 1, m)

\* C32: mergeSmallSections walks the sections in order; a section under
\* MIN_CHUNK_TOKENS that is not the first is appended to the unit before it,
\* which keeps its title; the first section always opens a unit; so every
\* unit but the first has at least MIN_CHUNK_TOKENS tokens and the units'
\* contents, in order, are the sections' contents.
C32_MergeSmallSections ==
    pc = "merged" =>
        LET sections == arg.sections
            starts == UnitStarts(sections, arg.enc)
            StartOf(u) == CHOOSE k \in starts : Cardinality({j \in starts : j <= k}) = u
            EndOf(u) == IF u = Cardinality(starts) THEN Len(sections) ELSE StartOf(u + 1) - 1
        IN  /\ Len(res) = Cardinality(starts)
            /\ \A u \in 1..Len(res) :
                  /\ res[u].title = sections[StartOf(u)].title
                  /\ res[u].content = ContentsFrom(sections, StartOf(u), EndOf(u))
                  /\ u > 1 => countTokens(res[u].content, arg.enc) >= MIN_CHUNK_TOKENS
            /\ ContentsFrom(res, 1, Len(res)) = ContentsFrom(sections, 1, Len(sections))

\* a small first section stayed a unit of its own, a section of exactly
\* MIN_CHUNK_TOKENS tokens opened the second unit, and the small section
\* after it was appended to that unit
C32_Witness ==
    /\ pc = "merged"
    /\ Len(arg.sections) = 3
    /\ countTokens(arg.sections[1].content, arg.enc) < MIN_CHUNK_TOKENS
    /\ countTokens(arg.sections[2].content, arg.enc) = MIN_CHUNK_TOKENS
    /\ countTokens(arg.sections[3].content, arg.enc) < MIN_CHUNK_TOKENS
    /\ Len(res) = 2
    /\ res[1] = arg.sections[1]
    /\ res[2] = Section(arg.sections[2].title,
                        arg.sections[2].content \o arg.sections[3].content)

(***************************************************************************)
(* The overlap between the chunks of a split section, under SpecChunk.     *)
(***************************************************************************)
\* the pieces splitLargeSection packs for the sections of the document
PiecesOf(markdown, enc) ==
    UNION {Range(expandParagraphs(splitByParagraphs(SectionsOf(markdown, enc)[k].content), enc)) :
              k \in 1..Len(SectionsOf(markdown, enc))}

\* the last n words of a chunk's content, all of them if there are fewer
TailWords(content, n) ==
    LET words == wordsOf(content)
        from == IF Len(words) > n THEN Len(words) - n + 1 ELSE 1
    IN  [i \in 1..(Len(words) - from + 1) |-> words[from + i - 1]]

\* C33: a chunk that follows a closed chunk of the same section (every
\* "(continued)" chunk) starts with the last floor(OVERLAP_TOKENS / 2) = 25
\* words of the chunk before it, all of them if it has fewer, followed by a
\* blank line and the next paragraph.
C33_OverlapSeed ==
    pc = "chunked" =>
        \A i \in 1..Len(res) :
            IsContinued(res[i]) =>
                /\ i > 1
                /\ Len(res[i].content) >= 2
                /\ res[i].content[1] = TailWords(res[i - 1].content, 25)
                /\ <<res[i].content[2]>> \in PiecesOf(arg.markdown, arg.enc)

\* one continuation chunk starts with all the words of a closed chunk of
\* fewer than 25 words, another with the last 25 of a closed chunk of more
C33_Witness ==
    /\ pc = "chunked"
    /\ \E i \in 2..Len(res) :
          /\ IsContinued(res[i])
          /\ Len(wordsOf(res[i - 1].content)) < 25
          /\ res[i].content[1] = wordsOf(res[i - 1].content)
    /\ \E i \in 2..Len(res) :
          /\ IsContinued(res[i])
          /\ Len(wordsOf(res[i - 1].content)) > 25
          /\ Len(res[i].content[1]) = 25

\* the words of the section bodies of a document, in reading order
RECURSIVE BodyWords(_, _)
BodyWords(markdown, i) ==
    IF i > Len(markdown.headers) THEN <<>>
    ELSE (IF i = 0 THEN wordsOf(markdown.intro) ELSE wordsOf(markdown.headers[i].content))
            \o BodyWords(markdown, i + 1)

\* the words of the chunks from the i-th on, the overlap prefix (the first
\* piece) of every continuation chunk removed
RECURSIVE ChunkWords(_, _)
ChunkWords(chunks, i) ==
    IF i > Len(chunks) THEN <<>>
    ELSE wordsOf(IF IsContinued(chunks[i]) THEN Tail(chunks[i].content)
                 ELSE chunks[i].content)
            \o ChunkWords(chunks, i + 1)

\* C34: the chunks read in chunkIndex order, each continuation chunk without
\* its overlap prefix, hold every word of the document's section bodies
\* exactly once and in the original order.
C34_ReadingOrderPreserved ==
    pc = "chunked" => ChunkWords(res, 1) = BodyWords(arg.markdown, 0)

(***************************************************************************)
(* The frontier and the visited set during a crawl run.                    *)
(***************************************************************************)
\* C35: at every point of a run no normalized URL is in the frontier more
\* than once and no frontier item refers to a visited URL.
C35_FrontierIsSet ==
    /\ \A i, j \in 1..Len(queue) :
          i # j => normalizeUrl(queue[i].url) # normalizeUrl(queue[j].url)
    /\ \A i \in 1..Len(queue) : normalizeUrl(queue[i].url) \notin visited

\* C38: at every iteration boundary each visited URL accounts for exactly
\* one entry of pages[] or of errors[], so |visited| = pages.length +
\* errors.length; an iteration that skips its item (already visited, or
\* off-domain) calls no extractor, adds to neither list and marks nothing
\* visited; failed fetches do not count toward maxPages: a fetch is made
\* whenever fewer than maxPages pages are stored, whatever has failed.
C38_VisitedAccounting ==
    /\ [](pc \in {"loop", "done"} =>
            /\ Cardinality(visited) = Len(pages) + Len(errors)
            /\ \A u \in visited :
                  Cardinality({i \in 1..Len(pages) : pages[i].url = u})
                      + Cardinality({i \in 1..Len(errors) : errors[i].url = u}) = 1)
    /\ [][fetched' = fetched =>
             visited' = visited /\ pages' = pages /\ errors' = errors]_vars
    /\ [][fetched' # fetched => Len(pages) < cfg.maxPages]_vars

\* a run that stored maxPages pages after a failed fetch, so that it called
\* the extractor more than maxPages times, and that skipped an item
C38_Witness ==
    /\ pc = "done"
    /\ Len(pages) = cfg.maxPages
    /\ Len(errors) >= 1
    /\ Len(fetched) > cfg.maxPages
    /\ Cardinality(visited) = Len(fetched)
    /\ insertion.count > Len(fetched) + Len(queue)

(***************************************************************************)
(* Crawls with LLM ranking in which the classifier may fail, for           *)
(* thresholds at, just above and well above the fallback score 0.1.        *)
(***************************************************************************)
FallbackConfigs ==
    [maxDepth : {2},
     maxPages : {3},
     minScoreToFollow : {10, 11, DefaultMinScoreToFollow},
     useLlmRanking : {TRUE},
     sameDomainOnly : {TRUE},
     batchSize : {DefaultBatchSize},
     requestDelayMs : {DefaultRequestDelayMs},
     onProgress : {FALSE}]

InitFallback ==
    /\ pc = "start"
    /\ seedUrl \in Seeds
    /\ cfg \in FallbackConfigs
    /\ seedDomain = <<>>
    /\ visited = {}
    /\ queue = <<>>
    /\ pages = <<>>
    /\ allRankedLinks = <<>>
    /\ errors = <<>>
    /\ fetched = <<>>
    /\ llmCalls = 0
    /\ browserInstance = FALSE
    /\ browserContext = FALSE
    /\ launches = 0
    /\ closes = 0
    /\ sleeps = <<>>
    /\ progress = <<>>
    /\ insertion = [at |-> <<>>, count |-> 0]
    /\ arg = <<>>
    /\ res = <<>>

SpecFallback == InitFallback /\ [][Next]_vars

\* every classifier call made so far has failed: calls were made and every
\* ranked link carries the fallback rationale (a call that succeeds leaves
\* at least one link ranked by the classifier, see CrawlOutcomes)
EveryBatchFailed ==
    /\ llmCalls >= 1
    /\ \A i \in 1..Len(allRankedLinks) :
          allRankedLinks[i].rationale = "Error during ranking"

\* C39: in a crawl with useLlmRanking = true in which every classifier call
\* fails, every ranked link has score 0.1; with minScoreToFollow > 0.1
\* nothing is ever enqueued, only the seed is fetched, and the links of the
\* failed batches are in rankedLinks.
C39_AllBatchesFail ==
    cfg.useLlmRanking /\ EveryBatchFailed /\ cfg.minScoreToFollow > 10 =>
        /\ allRankedLinks # <<>>
        /\ \A i \in 1..Len(allRankedLinks) : allRankedLinks[i].relevanceScore = 10
        /\ IsSelection([i \in 1..Len(allRankedLinks) |-> LinkOf(allRankedLinks[i])],
                       heuristicRank(preFilterLinks(pages[1].links, pages[1].url)),
                       1..Len(allRankedLinks))
        /\ queue = <<>>
        /\ insertion.count = 1
        /\ Len(fetched) = 1
        /\ Len(pages) = 1
        /\ pages[1].url = normalizeUrl(seedUrl)

\* a finished run with the default threshold whose one classifier call
\* failed for a batch of two links: both are reported, none was followed
C39_Witness ==
    /\ pc = "done"
    /\ cfg.minScoreToFollow = DefaultMinScoreToFollow
    /\ llmCalls = 1
    /\ Len(allRankedLinks) = 2
    /\ \A i \in 1..2 : allRankedLinks[i].rationale = "Error during ranking"
    /\ Len(pages) = 1
    /\ Len(fetched) = 1

(***************************************************************************)
(* Several crawl invocations in one process.  The event loop runs one      *)
(* continuation at a time and switches between the invocations at their    *)
(* awaits, so an action is the code between two awaits.  The locals of an  *)
(* invocation (queue, visited, pages, errors, its position pc) are         *)
(* functions of the invocation here; browserInstance and browserContext    *)
(* are the module-level variables of the extractor, 0 for null and        *)
(* otherwise the number of the launch that made them.  arg[r] holds what   *)
(* invocation r is awaiting: the browser session its pending call runs on, *)
(* whether that session has been closed under it, the item being fetched   *)
(* and where initBrowser returns to.  Every page loads unless its session  *)
(* is closed.                                                              *)
(***************************************************************************)
MaxRuns == 2

Runs == 1..MaxRuns

ConcurrentConfig ==
    [maxDepth |-> 1, maxPages |-> 3, minScoreToFollow |-> DefaultMinScoreToFollow,
     useLlmRanking |-> FALSE, sameDomainOnly |-> FALSE, batchSize |-> DefaultBatchSize,
     requestDelayMs |-> DefaultRequestDelayMs, onProgress |-> FALSE]

\* the links of the site's pages: the root links to two spellings of /budget
SiteLinks(url) == IF url = <<"https://a.gov", "/">> THEN <<LBudget, LBudgetSlash>> ELSE <<>>

NoCall == [session |-> 0, closed |-> FALSE, item |-> <<>>, ret |-> ""]

InitConcurrent ==
    /\ pc = [r \in Runs |-> "start"]
    /\ seedUrl = SeedRoot
    /\ cfg = ConcurrentConfig
    /\ seedDomain = hostnameOf(normalizeUrl(SeedRoot)[1])
    /\ visited = [r \in Runs |-> {}]
    /\ queue = [r \in Runs |-> <<>>]
    /\ pages = [r \in Runs |-> <<>>]
    /\ errors = [r \in Runs |-> <<>>]
    /\ arg = [r \in Runs |-> NoCall]
    /\ browserInstance = 0
    /\ browserContext = 0
    /\ launches = 0
    /\ closes = 0
    /\ allRankedLinks = <<>>
    /\ fetched = <<>>
    /\ llmCalls = 0
    /\ sleeps = <<>>
    /\ progress = <<>>
    /\ insertion = [at |-> <<>>, count |-> 0]
    /\ res = <<>>

concurrentIdle ==
    <<seedUrl, cfg, seedDomain, allRankedLinks, fetched, llmCalls, sleeps, progress,
      insertion, res>>

\* crawl: await initBrowser() finds a browser and returns
RunInitBrowserReturn(r) ==
    /\ pc[r] = "start"
    /\ browserInstance # 0
    /\ pc' = [pc EXCEPT ![r] = "ready"]
    /\ UNCHANGED <<visited, queue, pages, errors, arg, browserInstance, browserContext,
                   launches, closes, concurrentIdle>>

\* crawl: await initBrowser() finds no browser and awaits chromium.launch
RunInitBrowserLaunch(r) ==
    /\ pc[r] = "start"
    /\ browserInstance = 0
    /\ pc' = [pc EXCEPT ![r] = "launch"]
    /\ arg' = [arg EXCEPT ![r].ret = "ready"]
    /\ UNCHANGED <<visited, queue, pages, errors, browserInstance, browserContext,
                   launches, closes, concurrentIdle>>

\* initBrowser: browserInstance = await chromium.launch(...), then
\* browserInstance.newContext(...) is awaited
RunLaunched(r) ==
    /\ pc[r] = "launch"
    /\ launches' = launches + 1
    /\ browserInstance' = launches + 1
    /\ arg' = [arg EXCEPT ![r].session = launches + 1, ![r].closed = FALSE]
    /\ pc' = [pc EXCEPT ![r] = "newContext"]
    /\ UNCHANGED <<visited, queue, pages, errors, browserContext, closes, concurrentIdle>>

\* initBrowser: browserContext = await browserInstance.newContext(...), up to
\* the return to crawl or to extractLinksFromUrl, which then awaits page.goto
RunContextReady(r) ==
    /\ pc[r] = "newContext"
    /\ ~arg[r].closed
    /\ browserContext' = arg[r].session
    /\ pc' = [pc EXCEPT ![r] = arg[r].ret]
    /\ arg' = [arg EXCEPT ![r].ret = ""]
    /\ UNCHANGED <<visited, queue, pages, errors, browserInstance, launches, closes,
                   concurrentIdle>>

\* initBrowser: newContext rejects because the browser was closed meanwhile;
\* neither initBrowser nor crawl catches it
RunContextThrows(r) ==
    /\ pc[r] = "newContext"
    /\ arg[r].closed
    /\ pc' = [pc EXCEPT ![r] = "thrown"]
    /\ UNCHANGED <<visited, queue, pages, errors, arg, browserInstance, browserContext,
                   launches, closes, concurrentIdle>>

\* crawl: the state of the run, up to the first test of the loop
RunEnterLoop(r) ==
    /\ pc[r] = "ready"
    /\ queue' = [queue EXCEPT ![r] = <<QueueItem(normalizeUrl(seedUrl), 0, Undefined, Undefined)>>]
    /\ pc' = [pc EXCEPT ![r] = "loop"]
    /\ UNCHANGED <<visited, pages, errors, arg, browserInstance, browserContext,
                   launches, closes, concurrentIdle>>

\* an iteration that ends at `continue` because the URL is already visited
RunSkipVisited(r) ==
    /\ pc[r] = "loop"
    /\ loopGuard(queue[r], pages[r], cfg.maxPages)
    /\ isVisited(visited[r], normalizeUrl(Head(sortQueue(queue[r])).url))
    /\ queue' = [queue EXCEPT ![r] = Tail(sortQueue(queue[r]))]
    /\ UNCHANGED <<pc, visited, pages, errors, arg, browserInstance, browserContext,
                   launches, closes, concurrentIdle>>

\* the iteration up to extractLinksFromUrl: the item is taken and marked
RunTake(r) ==
    /\ pc[r] = "loop"
    /\ loopGuard(queue[r], pages[r], cfg.maxPages)
    /\ ~isVisited(visited[r], normalizeUrl(Head(sortQueue(queue[r])).url))
    /\ queue' = [queue EXCEPT ![r] = Tail(sortQueue(queue[r]))]
    /\ visited' = [visited EXCEPT
                      ![r] = markVisited(@, normalizeUrl(Head(sortQueue(queue[r])).url))]

\* getContext() returns the context there is; context.newPage() and
\* page.goto(url) are awaited on it
RunFetchOnContext(r) ==
    /\ RunTake(r)
    /\ browserContext # 0
    /\ arg' = [arg EXCEPT ![r] = [session |-> browserContext, closed |-> FALSE,
                                  item |-> Head(sortQueue(queue[r])), ret |-> ""]]
    /\ pc' = [pc EXCEPT ![r] = "goto"]
    /\ UNCHANGED <<pages, errors, browserInstance, browserContext, launches, closes,
                   concurrentIdle>>

\* getContext() finds no context and no browser: initBrowser launches one
RunFetchLaunch(r) ==
    /\ RunTake(r)
    /\ browserContext = 0
    /\ browserInstance = 0
    /\ arg' = [arg EXCEPT ![r] = [session |-> 0, closed |-> FALSE,
                                  item |-> Head(sortQueue(queue[r])), ret |-> "goto"]]
    /\ pc' = [pc EXCEPT ![r] = "launch"]
    /\ UNCHANGED <<pages, errors, browserInstance, browserContext, launches, closes,
                   concurrentIdle>>

\* getContext() finds no context but a browser (another invocation is in
\* newContext): initBrowser returns at once, getContext returns null and
\* context.newPage() throws a TypeError outside the try block
RunFetchNoContext(r) ==
    /\ RunTake(r)
    /\ browserContext = 0
    /\ browserInstance # 0
    /\ pc' = [pc EXCEPT ![r] = "thrown"]
    /\ UNCHANGED <<pages, errors, arg, browserInstance, browserContext, launches,
                   closes, concurrentIdle>>

\* page.goto and the extraction succeed: the page is stored and its links
\* are filtered, ranked and enqueued
RunFetchPage(r) ==
    /\ pc[r] = "goto"
    /\ ~arg[r].closed
    /\ \E item \in {arg[r].item} : \E normalizedUrl \in {normalizeUrl(arg[r].item.url)} :
       \E links \in {SiteLinks(normalizeUrl(arg[r].item.url))} :
          /\ pages' = [pages EXCEPT
                          ![r] = pagesPush(@, [url |-> normalizedUrl, links |-> links])]
          /\ queue' = [queue EXCEPT ![r] =
                 IF shouldProcessLinks(item.depth, cfg.maxDepth, links)
                 THEN @ \o enqueued(filterByScore(rankPage(links, normalizedUrl,
                                                           cfg.useLlmRanking,
                                                           cfg.batchSize, <<>>),
                                                  cfg.minScoreToFollow),
                                    visited[r], item.depth, normalizedUrl)
                 ELSE @]
    /\ pc' = [pc EXCEPT ![r] = "loop"]
    /\ arg' = [arg EXCEPT ![r] = NoCall]
    /\ UNCHANGED <<visited, errors, browserInstance, browserContext, launches, closes,
                   concurrentIdle>>

\* the session was closed during the call: the pending operation rejects,
\* the catch block returns null and crawl records the error
RunFetchNull(r) ==
    /\ pc[r] = "goto"
    /\ arg[r].closed
    /\ errors' = [errors EXCEPT ![r] = Append(@, [url |-> normalizeUrl(arg[r].item.url),
                                                  error |-> "Failed to fetch"])]
    /\ pc' = [pc EXCEPT ![r] = "loop"]
    /\ arg' = [arg EXCEPT ![r] = NoCall]
    /\ UNCHANGED <<visited, queue, pages, browserInstance, browserContext, launches,
                   closes, concurrentIdle>>

\* the loop condition fails: closeBrowser() closes the module's context and
\* browser, whoever is using them, and sets both to null
RunReturn(r) ==
    /\ pc[r] = "loop"
    /\ ~loopGuard(queue[r], pages[r], cfg.maxPages)
    /\ arg' = [q \in Runs |->
                  IF /\ pc[q] \in {"newContext", "goto"}
                     /\ arg[q].session \in {browserContext, browserInstance} \ {0}
                  THEN [arg[q] EXCEPT !.closed = TRUE]
                  ELSE arg[q]]
    /\ browserContext' = 0
    /\ browserInstance' = 0
    /\ closes' = closes + 1
    /\ pc' = [pc EXCEPT ![r] = "done"]
    /\ UNCHANGED <<visited, queue, pages, errors, launches, concurrentIdle>>

NextConcurrent ==
    \/ \E r \in Runs : RunInitBrowserReturn(r)
    \/ \E r \in Runs : RunInitBrowserLaunch(r)
    \/ \E r \in Runs : RunLaunched(r)
    \/ \E r \in Runs : RunContextReady(r)
    \/ \E r \in Runs : RunContextThrows(r)
    \/ \E r \in Runs : RunEnterLoop(r)
    \/ \E r \in Runs : RunSkipVisited(r)
    \/ \E r \in Runs : RunFetchOnContext(r)
    \/ \E r \in Runs : RunFetchLaunch(r)
    \/ \E r \in Runs : RunFetchNoContext(r)
    \/ \E r \in Runs : RunFetchPage(r)
    \/ \E r \in Runs : RunFetchNull(r)
    \/ \E r \in Runs : RunReturn(r)

SpecConcurrent == InitConcurrent /\ [][NextConcurrent]_vars

\* the pages a crawl of the site returns when it runs alone
SoloPages ==
    <<[url |-> <<"https://a.gov", "/">>, links |-> <<LBudget, LBudgetSlash>>],
      [url |-> <<"https://a.gov", "/", "budget">>, links |-> <<>>]>>

\* C36: crawl invocations running concurrently in one process are
\* independent: the browser is launched only once, the end of one run
\* closes no session another run is using, no run rejects, and every run
\* returns the pages and errors it returns when it runs alone.
C36_ConcurrentCrawlsIndependent ==
    /\ launches <= 1
    /\ \A r \in Runs :
          /\ pc[r] \in {"newContext", "goto"} => ~arg[r].closed
          /\ pc[r] # "thrown"
          /\ pc[r] = "done" => pages[r] = SoloPages /\ errors[r] = <<>>

(***************************************************************************)
(* withRetry(fn, operationName), one action per pass of its loop.  What fn *)
(* does at its k-th call is fnCall(k): it resolves, or it rejects with an  *)
(* error {status, code, headers}; a retry-after-ms header is an integer    *)
(* text.  res holds the loop variable attempt, lastError, the number of    *)
(* calls of fn made, the delays slept and what withRetry settled with.     *)
(***************************************************************************)
MAX_RETRIES == 5

INITIAL_RETRY_DELAY_MS == 1000

Resolved == [ok |-> TRUE]

ApiError(status, code, retryAfterMs) ==
    [ok |-> FALSE, status |-> status, code |-> code, retryAfterMs |-> retryAfterMs]

\* what a call of fn may do: resolve, fail with a server or a client error,
\* or be rate limited with or without a hint
FnOutcomes ==
    {Resolved, ApiError(500, "server_error", Undefined),
     ApiError(429, "rate_limit_exceeded", Undefined),
     ApiError(400, "rate_limit_exceeded", Undefined)}
        \cup {ApiError(429, "rate_limit_exceeded", Some(<<h>>)) :
                 h \in {"0", "59500", "70000"}}

\* Math.pow(2, attempt)
RECURSIVE pow2(_)
pow2(n) == IF n = 0 THEN 1 ELSE 2 * pow2(n - 1)

\* error?.status === 429 || error?.code === "rate_limit_exceeded"
isRateLimit(error) == error.status = 429 \/ error.code = "rate_limit_exceeded"

\* error?.headers?.["retry-after-ms"] ? parseInt(...) : INITIAL_RETRY_DELAY_MS * 2^attempt
retryAfterMs(error, attempt) ==
    IF error.retryAfterMs # Undefined
    THEN parseInt(error.retryAfterMs[1])[1]
    ELSE INITIAL_RETRY_DELAY_MS * pow2(attempt)

\* faulty variant: the delay is not capped
delayMsUncapped(error, attempt) == retryAfterMs(error, attempt) + 500

\* Math.min(retryAfterMs + 500, 60000)
delayMs(error, attempt) ==
    IF retryAfterMs(error, attempt) + 500 < 60000
    THEN retryAfterMs(error, attempt) + 500 ELSE 60000

\* the outcome of the k-th call of fn; a call after the listed ones resolves
fnCall(k) == IF k <= Len(arg) THEN arg[k] ELSE Resolved

InitRetry ==
    /\ pc = "withRetry"
    /\ arg \in [1..MAX_RETRIES -> FnOutcomes]
    /\ res = [attempt |-> 0, lastError |-> Undefined, calls |-> 0, slept |-> <<>>,
              settled |-> Undefined]
    /\ CrawlIdle

\* return await fn()
RetryReturn ==
    /\ pc = "withRetry"
    /\ res.attempt < MAX_RETRIES
    /\ fnCall(res.calls + 1).ok
    /\ res' = [res EXCEPT !.calls = @ + 1, !.settled = Some(fnCall(res.calls + 1))]
    /\ pc' = "returned"
    /\ UNCHANGED <<arg, crawlVars>>

\* fn rejects with a rate-limit error: sleep(delayMs), continue
RetryRateLimited ==
    /\ pc = "withRetry"
    /\ res.attempt < MAX_RETRIES
    /\ \E error \in {fnCall(res.calls + 1)} :
          /\ ~error.ok
          /\ isRateLimit(error)
          /\ res' = [res EXCEPT !.calls = @ + 1,
                                !.lastError = Some(error),
                                !.slept = Append(@, delayMs(error, res.attempt)),
                                !.attempt = @ + 1]
    /\ UNCHANGED <<pc, arg, crawlVars>>

\* fn rejects with another error: throw error
RetryRethrow ==
    /\ pc = "withRetry"
    /\ res.attempt < MAX_RETRIES
    /\ \E error \in {fnCall(res.calls + 1)} :
          /\ ~error.ok
          /\ ~isRateLimit(error)
          /\ res' = [res EXCEPT !.calls = @ + 1,
                                !.lastError = Some(error),
                                !.settled = Some(error)]
    /\ pc' = "thrown"
    /\ UNCHANGED <<arg, crawlVars>>

\* the loop ends: throw lastError
RetryExhausted ==
    /\ pc = "withRetry"
    /\ res.attempt >= MAX_RETRIES
    /\ res' = [res EXCEPT !.settled = res.lastError]
    /\ pc' = "thrown"
    /\ UNCHANGED <<arg, crawlVars>>

NextRetry ==
    \/ RetryReturn
    \/ RetryRateLimited
    \/ RetryRethrow
    \/ RetryExhausted

SpecRetry == InitRetry /\ [][NextRetry]_vars

\* the delay the claim gives for a rate-limit error at an attempt
ClaimedDelay(error, attempt) ==
    LET base == IF error.retryAfterMs = Undefined
                THEN CASE attempt = 0 -> 1000
                       [] attempt = 1 -> 2000
                       [] attempt = 2 -> 4000
                       [] attempt = 3 -> 8000
                       [] attempt = 4 -> 16000
                ELSE CASE error.retryAfterMs[1] = <<"0">> -> 0
                       [] error.retryAfterMs[1] = <<"59500">> -> 59500
                       [] error.retryAfterMs[1] = <<"70000">> -> 70000
    IN  IF base + 500 > 60000 THEN 60000 ELSE base + 500

IsRateLimitError(error) ==
    ~error.ok /\ (error.status = 429 \/ error.code = "rate_limit_exceeded")

\* C37: withRetry calls fn at most MAX_RETRIES = 5 times; it returns the
\* first success; it rethrows a non-rate-limit error at once, with no delay
\* after it; after five rate-limited attempts it throws the last error; the
\* delay after the k-th rate-limited attempt is the retry-after-ms hint, or
\* 1000 * 2^(k-1) ms without one, plus 500 ms, capped at 60000 ms.
C37_WithRetry ==
    /\ res.calls <= 5
    /\ \A k \in 1..res.calls : k < res.calls => IsRateLimitError(arg[k])
    /\ \A k \in 1..(res.calls - 1) :
          Len(res.slept) >= k /\ res.slept[k] = ClaimedDelay(arg[k], k - 1)
    /\ pc = "thrown" /\ ~IsRateLimitError(arg[res.calls]) => Len(res.slept) = res.calls - 1
    /\ pc = "returned" => arg[res.calls].ok /\ res.settled = Some(arg[res.calls])
    /\ pc = "thrown" =>
          /\ res.settled = Some(arg[res.calls])
          /\ ~arg[res.calls].ok
          /\ IsRateLimitError(arg[res.calls]) => res.calls = 5

\* four rate-limited attempts, the last with a hint above the cap, then a
\* success at the fifth call
C37_Witness ==
    /\ pc = "returned"
    /\ res.calls = 5
    /\ res.slept = <<1500, 2500, 4500, 60000>>

(***************************************************************************)
(* Specification of preFilterLinks for one link of a page, next to the     *)
(* scheduler's isSameDomain on the same two hosts.                         *)
(***************************************************************************)
FilterOrigins ==
    {"https://a.gov", "https://www.a.gov", "https://sub.a.gov",
     "https://b.com", "https://www.b.com", "https://sub.b.com"}

\* links to /about and to /bid on every origin
FilterLinks ==
    {ExtractedLink(<<o, "/", seg>>, <<"About">>, <<"About">>) :
        o \in FilterOrigins, seg \in {"about", "bid"}}

InitFilter ==
    /\ pc = "preFilter"
    /\ arg \in [link : FilterLinks, baseUrl : {<<o, "/">> : o \in FilterOrigins}]
    /\ res = <<>>
    /\ CrawlIdle

\* filtered = preFilterLinks(links, baseUrl) for links = [link]; sameDomain
\* is the local of the filter callback
PreFilterLinksCall ==
    /\ pc = "preFilter"
    /\ res' = [sameDomain |-> preFilterSameDomain(hostnameOf(arg.link.url[1]),
                                                  hostnameOf(arg.baseUrl[1])),
               filtered |-> preFilterLinks(<<arg.link>>, arg.baseUrl)]
    /\ pc' = "preFiltered"
    /\ UNCHANGED <<arg, crawlVars>>

NextFilter == PreFilterLinksCall

SpecFilter == InitFilter /\ [][NextFilter]_vars

\* C40: a link whose host isSameDomain accepts relative to the page's host
\* is treated as same-domain by preFilterLinks and is kept without passing
\* the external allow-list (no skip pattern matching it).
C40_SameDomainAgreement ==
    pc = "preFiltered"
        /\ isSameDomain(hostnameOf(arg.baseUrl[1]), hostnameOf(arg.link.url[1]))
        /\ ~skipPatternMatches(arg.link.url) =>
            /\ res.sameDomain
            /\ res.filtered = <<arg.link>>

====
